---- MODULE Spec2Model ----
(***************************************************************************)
(* NodeDB: an embedded, file-backed document store.                        *)
(*                                                                         *)
(* The model follows the JavaScript sources:                               *)
(*   database/Collection.js, database/Database.js  (src/unnamed/part_007)  *)
(*   database/Index.js, database/CoreDB.js                                 *)
(*                                                                         *)
(* Execution model.  Node.js runs one thing at a time: an async function   *)
(* runs without interruption up to its next `await`; what follows an       *)
(* `await` runs later as a microtask (FIFO, variable mq); the completion   *)
(* of a file write is delivered by the event loop only when no microtask   *)
(* is pending.  The "unawaited calls" actions are one such uninterrupted    *)
(* run each; the "awaited calls" actions are a whole call of a caller that *)
(* awaits it while nothing else of the Store runs.                         *)
(*                                                                         *)
(* Documents have the fields _id, email and name.  The ids generateId()    *)
(* returns (uuid strings) are the fresh numbers 1, 2, ...  A field value   *)
(* is a string or an array of strings, the array named by its JSON text.   *)
(***************************************************************************)
EXTENDS Integers, Sequences, FiniteSets, TLC

\* ------------------------------------------------------------- bounds
\* number of ids generateId() hands out in one behaviour
MaxGen == 3
\* number of calls that may be in flight at the same time
MaxCalls == 3
\* number of operations that may wait in the write queue
MaxQueue == 2
\* ids that unawaited inserts generate
MaxConcGen == 2
\* an _id chosen by the caller (never produced by generateId)
CallerId == 100

\* ------------------------------------------------------------- values
\* a field the document does not have (JavaScript undefined)
Undef == "undefined"
\* a falsy / absent _id
NoId == 0

\* the collection names used, in a fixed order
CollSeq == <<"users", "logs", "users_email">>
EmailVals == {"a"}
NameVals == {"n"}

GenIds == 1..MaxGen

\* Array field values.  An array is named by its JSON text; ArrayElements
\* gives its elements.  An array is never === a scalar, as its name is not
\* the name of any scalar.
ArrayElements ==
  ("['n']" :> <<"n">>) @@ ("['n','m']" :> <<"n", "m">>) @@ ("['m']" :> <<"m">>)
\* Array.isArray(v)
IsArray(v) == v \in DOMAIN ArrayElements
\* the scalar values a name field or an array of names holds
ScalarNames == {"n", "m"}

\* ------------------------------------------------------ small helpers
Range(s) == {s[i] : i \in 1..Len(s)}

\* F applied to the value of e: a LET whose definition is evaluated once,
\* however often F uses it
With(e, F(_)) == CHOOSE y \in {F(v) : v \in {e}} : TRUE

\* ------------------------------------------------- Map (documents)
\* A JavaScript Map from _id to document object, in insertion order:
\* a sequence of [key, ref]; ref is the address of the object in heap.
MapHas(m, k) == \E i \in 1..Len(m) : m[i].key = k

\* Map.prototype.set: an existing key keeps its position
MapSet(m, k, r) ==
  IF MapHas(m, k)
  THEN [i \in 1..Len(m) |-> IF m[i].key = k THEN [key |-> k, ref |-> r] ELSE m[i]]
  ELSE Append(m, [key |-> k, ref |-> r])

\* Map.prototype.delete
MapDelete(m, k) == SelectSeq(m, LAMBDA e : e.key # k)

\* Array.from(map.values())
MapValues(m) == [i \in 1..Len(m) |-> m[i].ref]

\* ------------------------------------------------------------ Index
\* JSON.stringify of a scalar field value
JSONStringify(v) == <<v>>
\* the null key part of a missing field; Array.join prints it as ''
NullPart == <<>>
\* getIndexKey returning null (sparse index, field missing)
KeyNull == << <<"null", "null">> >>

getNestedValue(doc, field) == doc[field]

\* (mutation of getIndexKey: the sparse test is left out)
getIndexKeyNotSparse(ix, doc) ==
  [i \in 1..Len(ix.fields) |->
      LET value == getNestedValue(doc, ix.fields[i])
      IN  IF value # Undef THEN JSONStringify(value) ELSE NullPart]

\* Index.getIndexKey: the parts joined with '|' (the sequence of parts
\* stands for the joined string: the join is injective on JSON texts)
getIndexKey(ix, doc) ==
  LET keyParts == [i \in 1..Len(ix.fields) |->
                      LET value == getNestedValue(doc, ix.fields[i])
                      IN  IF value # Undef THEN JSONStringify(value) ELSE NullPart]
  IN  IF ix.sparse /\ \E i \in 1..Len(keyParts) : keyParts[i] = NullPart
      THEN KeyNull
      ELSE keyParts

\* indexData.get(key).add(id), creating the Set when the key is new
AddId(data, key, id) ==
  IF key \in DOMAIN data
  THEN [data EXCEPT ![key] = @ \cup {id}]
  ELSE data @@ (key :> {id})

\* indexData.get(key).delete(id), deleting the key when its Set is empty
RemoveId(data, key, id) ==
  IF key \in DOMAIN data
  THEN LET s == data[key] \ {id}
       IN  IF s = {} THEN [k \in (DOMAIN data) \ {key} |-> data[k]]
           ELSE [data EXCEPT ![key] = s]
  ELSE data

\* (mutation of IndexInsert: the uniqueness test is left out)
IndexInsertUnchecked(ix, doc) ==
  LET key == getIndexKey(ix, doc)
  IN  IF key # KeyNull
      THEN [ix |-> [ix EXCEPT !.data = AddId(ix.data, key, doc._id)], err |-> FALSE]
      ELSE [ix |-> ix, err |-> FALSE]

\* Index.update(document, 'insert')
IndexInsert(ix, doc) ==
  LET key == getIndexKey(ix, doc)
  IN  IF key # KeyNull
      THEN IF ix.unique /\ key \in DOMAIN ix.data
           THEN [ix |-> ix, err |-> TRUE]
           ELSE [ix |-> [ix EXCEPT !.data = AddId(ix.data, key, doc._id)], err |-> FALSE]
      ELSE [ix |-> ix, err |-> FALSE]

\* Index.update(document, 'update', originalDoc): the old key is removed
\* before the uniqueness check of the new key throws
IndexUpdate(ix, doc, originalDoc) ==
  LET key == getIndexKey(ix, doc)
      originalKey == getIndexKey(ix, originalDoc)
  IN  IF originalKey # key
      THEN LET d1 == IF originalKey # KeyNull /\ originalKey \in DOMAIN ix.data
                     THEN RemoveId(ix.data, originalKey, doc._id)
                     ELSE ix.data
           IN  IF key # KeyNull
               THEN IF ix.unique /\ key \in DOMAIN d1
                    THEN [ix |-> [ix EXCEPT !.data = d1], err |-> TRUE]
                    ELSE [ix |-> [ix EXCEPT !.data = AddId(d1, key, doc._id)], err |-> FALSE]
               ELSE [ix |-> [ix EXCEPT !.data = d1], err |-> FALSE]
      ELSE [ix |-> ix, err |-> FALSE]

\* Index.update(document, 'delete')
IndexDelete(ix, doc) ==
  LET key == getIndexKey(ix, doc)
  IN  IF key # KeyNull /\ key \in DOMAIN ix.data
      THEN [ix |-> [ix EXCEPT !.data = RemoveId(ix.data, key, doc._id)], err |-> FALSE]
      ELSE [ix |-> ix, err |-> FALSE]

\* Index.update: the switch on operation
IndexApply(ix, doc, operation, originalDoc) ==
  CASE operation = "insert" -> IndexInsert(ix, doc)
    [] operation = "update" -> IndexUpdate(ix, doc, originalDoc)
    [] operation = "delete" -> IndexDelete(ix, doc)

RECURSIVE updateIndexesFrom(_, _, _, _, _, _)
\* Collection.updateIndexes from position i of db.indexes on: the indexes
\* bound to collection c are updated in registration order; the first
\* one that throws ends the loop, the earlier ones stay updated
updateIndexesFrom(ixs, i, c, doc, operation, originalDoc) ==
  IF i > Len(ixs) THEN [indexes |-> ixs, err |-> FALSE]
  ELSE IF ixs[i].collection # c
       THEN updateIndexesFrom(ixs, i + 1, c, doc, operation, originalDoc)
       ELSE With(IndexApply(ixs[i], doc, operation, originalDoc), LAMBDA r :
              With([ixs EXCEPT ![i] = r.ix], LAMBDA next :
                IF r.err THEN [indexes |-> next, err |-> TRUE]
                ELSE updateIndexesFrom(next, i + 1, c, doc, operation, originalDoc)))

updateIndexes(ixs, c, doc, operation, originalDoc) ==
  updateIndexesFrom(ixs, 1, c, doc, operation, originalDoc)

\* ------------------------------------------------------------- state
VARIABLES
  collections,  \* db.collections: name -> documents Map (sequence of [key, ref])
  heap,         \* the document objects: ref -> document
  indexes,      \* db.indexes: the Index objects in registration order
  nextId,       \* the next id generateId() returns
  isConnected,  \* db.isConnected
  writeQueue,   \* db.writeQueue: the queued save operations
  isWriting,    \* db.isWriting
  loops,        \* the running processWriteQueue loops (by owning call)
  saves,        \* the fs.writeFile calls in flight
  calls,        \* the engine calls in flight: slot -> frame
  mq,           \* the microtask queue: continuations ready to run
  disk,         \* the storage root: collections/<name>.json, indexes/<name>.json
  last,         \* outcome of the latest call, "pending" while a call runs
  cache,        \* DatabaseServer.cache: the entries [key, response] in insertion order
  cacheSize,    \* DatabaseServer.options.cacheSize
  response,     \* what the server returned for the latest request
  wsOpen,           \* the client's WebSocket is connected to the server
  subscriptions,    \* ws.subscriptions of the client's socket on the server
  messageId,        \* DBClient.messageId
  pendingRequests,  \* DBClient.pendingRequests: the ids with a stored resolve/reject
  toServer,         \* the messages the client has sent, not yet handled by the server
  toClient          \* the messages the server has sent, not yet handled by onmessage

\* the server in front of the Store, and the client
FrontEnd == <<cache, cacheSize, response, wsOpen, subscriptions, messageId,
              pendingRequests, toServer, toClient>>

vars == <<collections, heap, indexes, nextId, isConnected, writeQueue,
          isWriting, loops, saves, calls, mq, disk, last, FrontEnd>>

EmptyFn == [x \in {} |-> 0]

\* the next free address / the smallest free call slot
NewRef(hp) == Len(hp) + 1
NewSlot == CHOOSE k \in 1..MaxCalls :
                 k \notin DOMAIN calls /\ \A j \in 1..(k - 1) : j \in DOMAIN calls

RECURSIVE Flatten(_, _)
\* the sequences ss[i], ss[i+1], ... joined
Flatten(ss, i) == IF i > Len(ss) THEN <<>> ELSE ss[i] \o Flatten(ss, i + 1)

RECURSIVE FirstOccurrences(_, _)
\* s from position i on, without the elements that occur earlier in s
FirstOccurrences(s, i) ==
  IF i > Len(s) THEN <<>>
  ELSE (IF \E j \in 1..(i - 1) : s[j] = s[i] THEN <<>> ELSE <<s[i]>>)
         \o FirstOccurrences(s, i + 1)

\* The objects that a Map entry or a call frame refers to, in a fixed
\* order; every other object is garbage.
Roots(colls, cs) ==
  With(Flatten([i \in 1..Len(CollSeq) |->
                  IF CollSeq[i] \in DOMAIN colls
                  THEN MapValues(colls[CollSeq[i]]) ELSE <<>>], 1)
         \o Flatten([k \in 1..MaxCalls |->
                       IF k \in DOMAIN cs THEN cs[k].found ELSE <<>>], 1),
       LAMBDA s : FirstOccurrences(s, 1))

\* Addresses carry no meaning: the live objects are renumbered in the
\* order of Roots, so that equal object graphs are equal states.
Renumber(colls, hp, cs) ==
  With(Roots(colls, cs), LAMBDA roots :
    With([r \in Range(roots) |-> CHOOSE j \in 1..Len(roots) : roots[j] = r], LAMBDA new :
      [collections |-> [c \in DOMAIN colls |->
                          [i \in 1..Len(colls[c]) |->
                             [key |-> colls[c][i].key, ref |-> new[colls[c][i].ref]]]],
       heap |-> [j \in 1..Len(roots) |-> hp[roots[j]]],
       calls |-> [k \in DOMAIN cs |->
                    [cs[k] EXCEPT !.found = [i \in 1..Len(cs[k].found) |->
                                               new[cs[k].found[i]]]]]]))

SetObjects(colls, hp, cs) ==
  \E n \in {Renumber(colls, hp, cs)} :
    /\ collections' = n.collections
    /\ heap' = n.heap
    /\ calls' = n.calls

\* The change events a call emits (this.db.emit / this.emit), by name: none
\* when the call throws; insert line 39; update line 120 when
\* updatedCount > 0 (its upsert branch emits through insert); delete line
\* 150 when a document was removed; dropCollection line 435 when the
\* collection c was registered (c is '' when it was not).
Emitted(op, c, err, modified, upserted, deleted) ==
  CASE err -> <<>>
    [] ~err /\ op = "insert" -> <<"documentInserted">>
    [] ~err /\ op = "update" /\ upserted > 0 -> <<"documentInserted">>
    [] ~err /\ op = "update" /\ upserted = 0 /\ modified > 0 -> <<"documentUpdated">>
    [] ~err /\ op = "delete" /\ deleted > 0 -> <<"documentDeleted">>
    [] ~err /\ op = "dropCollection" /\ c # "" -> <<"collectionDropped">>
    [] OTHER -> <<>>

\* what the caller and the subscribers see of a settled call: the
\* operation, whether it threw, the counts of an update or delete result
\* (update lines 96 and 123, delete line 157; 0 for the other calls and for
\* a call that threw, which returns nothing), and the change events it
\* emitted
Outcome(op, c, err, id, matched, modified, upserted, deleted) ==
  [op |-> op, err |-> err, upsertedCount |-> upserted,
   matchedCount |-> IF err THEN 0 ELSE matched,
   modifiedCount |-> IF err THEN 0 ELSE modified,
   deletedCount |-> IF err THEN 0 ELSE deleted,
   events |-> Emitted(op, c, err, modified, upserted, deleted)]
NoOutcome(op) == Outcome(op, "", FALSE, NoId, 0, 0, 0, 0)

\* a call frame
Frame(op, c, pc, found, q, u, upsert, result) ==
  [op |-> op, coll |-> c, pc |-> pc, found |-> found, query |-> q,
   update |-> u, upsert |-> upsert, result |-> result]

\* queries: {} or {field: value}
NoQuery == [field |-> "", val |-> Undef, idv |-> NoId]
\* update specs of one entry: {$set: {f: v}}, {$unset: {f: ''}}, {f: v}
NoUpdate == [kind |-> "", field |-> "", val |-> Undef, idv |-> NoId]

\* ------------------------------------------------ persistence (CoreDB)
\* JSON.stringify / JSON.parse of one document: the text lists the
\* properties in order; a property that is undefined is not written
JSONOfDoc(doc) == <<doc._id, doc.email, doc.name>>
DocOfJSON(t) == [_id |-> t[1], email |-> t[2], name |-> t[3]]

\* saveCollection lines 96-114: JSON.stringify(Array.from(documents.values()))
Snapshot(m, hp) == [i \in 1..Len(m) |-> JSONOfDoc(hp[m[i].ref])]

\* an fs.writeFile call in flight: the file, the text, who awaits it,
\* whether another write of the same file was in flight at the same time,
\* and whether the file was unlinked while the write was in flight
Write(kind, name, docs, entries, by) ==
  [kind |-> kind, name |-> name, docs |-> docs, entries |-> entries,
   by |-> by, raced |-> FALSE, unlinked |-> FALSE]
SameFile(s, t) == s.kind = t.kind /\ s.name = t.name

\* fs.writeFile(path, text) is called: the write joins those in flight
StartWrite(svs, s) ==
  IF \E t \in svs : SameFile(s, t)
  THEN {IF SameFile(s, t) THEN [t EXCEPT !.raced = TRUE] ELSE t : t \in svs}
         \cup {[s EXCEPT !.raced = TRUE]}
  ELSE svs \cup {s}

\* an fs.unlink call in flight (dropCollection line 422, Index.drop line 124)
Unlink(kind, name, by) ==
  [kind |-> kind, name |-> name, docs |-> <<>>, entries |-> {},
   by |-> by, raced |-> FALSE, unlinked |-> FALSE]

\* the file operation that removes the file of kind k
UnlinkOf(k) == IF k = "collection" THEN "unlinkCollection" ELSE "unlinkIndex"

\* CoreDB.saveCollection up to its await of fs.writeFile: the write it
\* puts in flight; none when the collection is not registered (line 91)
SaveStart(svs, c, colls, hp, by) ==
  IF c \notin DOMAIN colls THEN svs
  ELSE StartWrite(svs, Write("collection", <<c>>, Snapshot(colls[c], hp), {}, by))

\* the write-coordination fields of the Store, as one record
WState == [writeQueue |-> writeQueue, isWriting |-> isWriting,
           loops |-> loops, saves |-> saves, mq |-> mq]

\* (mutation of ProcessGuard: the busy flag is not tested)
ProcessGuardNoFlag(writing, queue) == queue = <<>>

\* processWriteQueue line 129: the early return
ProcessGuard(writing, queue) == writing \/ queue = <<>>

\* (mutation of LoopIteration: the operation is taken from the end of the
\* queue, writeQueue.pop())
LoopIterationPop(w, k, colls, hp) ==
  With(SaveStart(w.saves, w.writeQueue[Len(w.writeQueue)].coll, colls, hp,
                 [kind |-> "loop", id |-> k]),
       LAMBDA svs :
         [w EXCEPT !.writeQueue = SubSeq(@, 1, Len(@) - 1),
                   !.saves = svs,
                   !.mq = IF svs = w.saves THEN Append(@, [kind |-> "loop", id |-> k]) ELSE @])

\* processWriteQueue lines 133-136: shift one operation and run it up to
\* its await; an operation that starts no write is finished at once and
\* the loop goes on in a later microtask
LoopIteration(w, k, colls, hp) ==
  With(SaveStart(w.saves, Head(w.writeQueue).coll, colls, hp, [kind |-> "loop", id |-> k]),
       LAMBDA svs :
         [w EXCEPT !.writeQueue = Tail(@),
                   !.saves = svs,
                   !.mq = IF svs = w.saves THEN Append(@, [kind |-> "loop", id |-> k]) ELSE @])

\* CoreDB.processWriteQueue called by call k, up to its first await
processWriteQueue(w, k, colls, hp) ==
  IF ProcessGuard(w.isWriting, w.writeQueue) THEN w
  ELSE LoopIteration([w EXCEPT !.isWriting = TRUE, !.loops = @ \cup {k}], k, colls, hp)

\* CoreDB.queueWrite(async () => saveCollection(c)) called by call k
queueWrite(w, k, c, colls, hp) ==
  With([w EXCEPT !.writeQueue = Append(@, [coll |-> c])], LAMBDA w1 :
    IF ~w1.isWriting THEN processWriteQueue(w1, k, colls, hp) ELSE w1)

\* what call k awaits after queueWrite / processWriteQueue returned w: the
\* loop it started, or nothing (it goes on in the next microtask)
AwaitWrite(w, k) ==
  IF k \in w.loops THEN w ELSE [w EXCEPT !.mq = Append(@, [kind |-> "call", id |-> k])]
PcAfterWrite(w, k) == IF k \in w.loops THEN "awaitLoop" ELSE "settle"

SetWState(w) ==
  \E w1 \in {w} :
    /\ writeQueue' = w1.writeQueue
    /\ isWriting' = w1.isWriting
    /\ loops' = w1.loops
    /\ saves' = w1.saves
    /\ mq' = w1.mq


\* --------------------------------------------------------- Collection
\* Database.collection(name): the handle, registered on first reference
collection(colls, c) == IF c \in DOMAIN colls THEN colls ELSE (c :> <<>>) @@ colls

\* Collection.compareValues for a scalar query value: docValue === queryValue
\* (line 204), whatever the document's value is, an array included
compareValues(docValue, queryValue) == docValue = queryValue

\* Collection.matchesQuery
matchesQuery(doc, q) ==
  CASE q.field = "" -> TRUE
    [] q.field = "_id" -> compareValues(doc._id, q.idv)
    [] OTHER -> compareValues(doc[q.field], q.val)

\* Collection.find(query): the matching objects in Map order
find(m, hp, q) == SelectSeq(MapValues(m), LAMBDA r : matchesQuery(hp[r], q))

\* Collection.insert lines 17-32: the id, the Map entry, the indexes
InsertMem(c, d, colls, hp, ixs, nid) ==
  LET id == IF d._id = NoId THEN nid ELSE d._id
      doc == [d EXCEPT !._id = id]
      colls0 == collection(colls, c)
  IN  With(updateIndexes(ixs, c, doc, "insert", doc), LAMBDA ui :
        [collections |-> [colls0 EXCEPT ![c] = MapSet(@, doc._id, NewRef(hp))],
         heap |-> Append(hp, doc), indexes |-> ui.indexes,
         err |-> ui.err, id |-> id,
         nextId |-> IF d._id = NoId THEN nid + 1 ELSE nid])

\* Object.assign(document, {key: value}) and document[key] = value: the
\* property named by the key, dots included, is set or created
ObjectAssign(document, key, value) ==
  IF key \in DOMAIN document THEN [document EXCEPT ![key] = value]
  ELSE (key :> value) @@ document

\* array.push(v): the array with v appended ("" stands for the new [])
EmptyArray == ""
ElementsOf(a) == IF a = EmptyArray THEN <<>> ELSE ArrayElements[a]
PushDefined(a, v) ==
  \E t \in DOMAIN ArrayElements : ArrayElements[t] = Append(ElementsOf(a), v)
ArrayPush(a, v) ==
  CHOOSE t \in DOMAIN ArrayElements : ArrayElements[t] = Append(ElementsOf(a), v)

\* Collection.applyUpdateOperations for an update spec of one entry
applyUpdateOperations(doc, u) ==
  CASE u.kind = "$set" ->
         IF u.field = "_id" THEN [doc EXCEPT !._id = u.idv]
         ELSE ObjectAssign(doc, u.field, u.val)
    [] u.kind = "$unset" ->
         IF u.field = "_id" THEN [doc EXCEPT !._id = NoId]
         ELSE [doc EXCEPT ![u.field] = Undef]
    [] u.kind = "direct" ->
         IF u.field = "_id" THEN doc
         ELSE [doc EXCEPT ![u.field] = u.val]
    [] u.kind = "$push" ->
         [doc EXCEPT ![u.field] = ArrayPush(IF IsArray(@) THEN @ ELSE EmptyArray,
                                            u.val)]

\* `const originalDoc = { ...doc }` as updateIndexes reads it after
\* applyUpdateOperations has run: a shallow copy, so an array that $push
\* extended in place is the same array in the copy; an array that $push
\* created is in the document only
originalDoc(before, doc, u) ==
  IF u.kind = "$push" /\ IsArray(before[u.field])
  THEN [before EXCEPT ![u.field] = doc[u.field]]
  ELSE before

\* the document update's upsert branch would insert: {...query, ...update}
\* (the update's own key, "$set", becomes a property no field path reads)
UpsertDoc(q) ==
  [_id |-> IF q.field = "_id" THEN q.idv ELSE NoId,
   email |-> IF q.field = "email" THEN q.val ELSE Undef,
   name |-> IF q.field = "name" THEN q.val ELSE Undef]

\* the locals and the Store fields a run of update works on
UpdateStart(colls, hp, ixs, nid) ==
  [collections |-> colls, heap |-> hp, indexes |-> ixs, nextId |-> nid,
   err |-> FALSE, updatedCount |-> 0, upserted |-> FALSE]

\* Collection.update lines 91-112: the loop body for the found object r.
\* The upsert test sits inside the loop over the found documents.
UpdateBody(st, found, r, c, q, u, upsert) ==
  IF upsert /\ Len(found) = 0
  THEN With(InsertMem(c, UpsertDoc(q), st.collections, st.heap, st.indexes, st.nextId),
            LAMBDA ins :
              [collections |-> ins.collections, heap |-> ins.heap,
               indexes |-> ins.indexes, nextId |-> ins.nextId, err |-> ins.err,
               updatedCount |-> 0, upserted |-> TRUE])
  ELSE With(applyUpdateOperations(st.heap[r], u), LAMBDA doc :
         With(updateIndexes(st.indexes, c, doc, "update",
                            originalDoc(st.heap[r], doc, u)), LAMBDA ui :
           [collections |-> [st.collections EXCEPT ![c] = MapSet(@, doc._id, r)],
            heap |-> [st.heap EXCEPT ![r] = doc],
            indexes |-> ui.indexes, nextId |-> st.nextId, err |-> ui.err,
            updatedCount |-> IF ui.err THEN st.updatedCount ELSE st.updatedCount + 1,
            upserted |-> FALSE]))

RECURSIVE UpdateLoop(_, _, _, _, _, _, _)
\* Collection.update lines 90-113, from the i-th found document on; a throw
\* of updateIndexes and the return of the upsert branch end the loop
UpdateLoop(found, i, c, q, u, upsert, st) ==
  IF i > Len(found) \/ st.err \/ st.upserted THEN st
  ELSE With(UpdateBody(st, found, found[i], c, q, u, upsert),
            LAMBDA s1 : UpdateLoop(found, i + 1, c, q, u, upsert, s1))

RECURSIVE DeleteLoop(_, _, _, _, _)
\* Collection.delete lines 135-143, from the i-th found document on
DeleteLoop(found, i, c, hp, st) ==
  IF i > Len(found) THEN st
  ELSE With([collections |-> [st.collections EXCEPT ![c] = MapDelete(@, hp[found[i]]._id)],
             indexes |-> updateIndexes(st.indexes, c, hp[found[i]], "delete",
                                       hp[found[i]]).indexes],
            LAMBDA s1 : DeleteLoop(found, i + 1, c, hp, s1))

RECURSIVE Join(_, _)
\* fields.join(sep)
Join(fields, sep) ==
  IF fields = <<>> THEN ""
  ELSE IF Len(fields) = 1 THEN fields[1]
  ELSE fields[1] \o sep \o Join(Tail(fields), sep)

\* `${collection}_${fields.join('_')}`; a file name is a tuple of one string
IndexName(c, fields) == <<c \o "_" \o Join(fields, "_")>>

\* options.name is not given
NoName == <<>>
\* options.name || `${this.name}_${fields.join('_')}`
IndexNameOr(name, c, fields) == IF name = NoName THEN IndexName(c, fields) ELSE name

NewIndex(name, c, fields, unique, sparse) ==
  [name |-> name, collection |-> c, fields |-> fields,
   unique |-> unique, sparse |-> sparse, data |-> EmptyFn]

RECURSIVE BuildIndex(_, _, _)
\* Collection.createIndex lines 332-334: index.update(doc, 'insert') for
\* every value of the documents Map
BuildIndex(ix, refs, hp) ==
  IF refs = <<>> THEN [ix |-> ix, err |-> FALSE]
  ELSE With(IndexInsert(ix, hp[Head(refs)]), LAMBDA r :
         IF r.err THEN r ELSE BuildIndex(r.ix, Tail(refs), hp))

\* db.indexes.set(indexName, index)
IndexesSet(ixs, ix) ==
  IF \E i \in 1..Len(ixs) : ixs[i].name = ix.name
  THEN [i \in 1..Len(ixs) |-> IF ixs[i].name = ix.name THEN ix ELSE ixs[i]]
  ELSE Append(ixs, ix)

\* Index.save lines 97-102: the text of indexes/<name>.json, the list of
\* {key, ids} records of the index data
IndexFile(ix) == {<<k, ix.data[k]>> : k \in DOMAIN ix.data}

\* Database.getIndexes(collectionName)
getIndexes(ixs, c) == SelectSeq(ixs, LAMBDA ix : ix.collection = c)



\* ------------------------------------------------------------ inputs
InsertDocs == [_id : {NoId}, email : EmailVals \cup {Undef}, name : NameVals]

Queries ==
  {NoQuery}
    \cup {[field |-> "email", val |-> v, idv |-> NoId] : v \in EmailVals}
    \cup {[field |-> "_id", val |-> Undef, idv |-> i] : i \in GenIds}

\* update specs on the indexed field
Updates ==
  {[kind |-> "$set", field |-> "email", val |-> v, idv |-> NoId] : v \in EmailVals}
    \cup {[kind |-> "$unset", field |-> "email", val |-> Undef, idv |-> NoId]}

\* update specs that name _id: {$set: {_id: x}} and {_id: x}
IdUpdates ==
  {[kind |-> k, field |-> "_id", val |-> Undef, idv |-> CallerId] : k \in {"$set", "direct"}}

\* update calls: every query with every update spec, and upserts
\* update({email: v}, {$set: {name: "n"}}, {upsert: true})
UpdateCalls ==
  [query : Queries, update : Updates, upsert : {FALSE}]
    \cup [query : {q \in Queries : q.field = "email"},
          update : {[kind |-> "$set", field |-> "name", val |-> "n", idv |-> NoId]},
          upsert : {TRUE}]

\* documents whose name is a scalar or an array, and {$push: {name: 'm'}}
PushDocs == [_id : {NoId}, email : {Undef}, name : {"n", "['n']"}]
PushUpdate == [kind |-> "$push", field |-> "name", val |-> "m", idv |-> NoId]

\* documents whose name field is a scalar or an array, and the queries
\* {name: v} with a scalar v
QueryDocs == [_id : {NoId}, email : {Undef}, name : ScalarNames \cup DOMAIN ArrayElements]
NameQuery(v) == [field |-> "name", val |-> v, idv |-> NoId]

\* the document lists given to insertMany
BatchDocs == UNION {[1..n -> InsertDocs] : n \in 1..MaxGen}

\* createIndex(fields, {unique: true, sparse}) on the email field
IndexSpecs == {[fields |-> <<"email">>, unique |-> TRUE, sparse |-> s] : s \in BOOLEAN}

\* createIndex(['name']): a second, non-unique index
NameIndexSpec == [fields |-> <<"name">>, unique |-> FALSE, sparse |-> FALSE]

\* ------------------------------------------------------------- Init
\* A Store that has connected to an empty storage root.
InitStore ==
  /\ collections = EmptyFn
  /\ heap = <<>>
  /\ indexes = <<>>
  /\ nextId = 1
  /\ isConnected = TRUE
  /\ writeQueue = <<>>
  /\ isWriting = FALSE
  /\ loops = {}
  /\ saves = {}
  /\ calls = EmptyFn
  /\ mq = <<>>
  /\ disk = [collections |-> EmptyFn, indexes |-> EmptyFn]
  /\ last = NoOutcome("none")

\* no request has been answered yet
NoResponse == [kind |-> "none", collection |-> "", count |-> 0, results |-> <<>>]

\* a message on the socket; id is NoMessageId when the message has none
NoMessageId == 0 - 1
Message(type, id, c) == [type |-> type, id |-> id, collection |-> c]

\* A DatabaseServer constructed with options.cacheSize = size (constructor,
\* lines 10-27) and a DBClient (constructor, lines 3-8).  When the client's
\* socket is open the server has sent its welcome message (lines 153-157).
InitFrontEnd(size, open) ==
  /\ cache = <<>>
  /\ cacheSize = size
  /\ response = NoResponse
  /\ wsOpen = open
  /\ subscriptions = {}
  /\ messageId = 0
  /\ pendingRequests = {}
  /\ toServer = <<>>
  /\ toClient = IF open THEN <<Message("connected", NoMessageId, "")>> ELSE <<>>

\* options.cacheSize || 1000
DefaultCacheSize == 1000

Init == InitStore /\ InitFrontEnd(DefaultCacheSize, FALSE)

\* nothing of the Store is running: every call has settled
Idle == DOMAIN calls = {} /\ mq = <<>> /\ saves = {} /\ loops = {}

Without(f, k) == [x \in (DOMAIN f) \ {k} |-> f[x]]

\* fs.writeFile of collections/<c>.json has completed
WriteCollection(d, c, text) == [d EXCEPT !.collections = (c :> text) @@ @]
\* fs.writeFile of indexes/<name>.json has completed
WriteIndex(d, name, entries) == [d EXCEPT !.indexes = (name :> entries) @@ @]

\* ---------------------------------------------------- awaited calls
\* One action is one call that the caller awaits while nothing else of
\* the Store runs: the call's memory effect, then (queueWrite finds
\* isWriting false) processWriteQueue runs the queued saveCollection, which
\* writes the documents as they are now, and the call settles.
CoreState == <<writeQueue, isWriting, loops, saves, mq>>

\* await db.collection(c).insert(d)
AwaitInsert(c, d) ==
  /\ isConnected /\ Idle
  /\ d._id = NoId => nextId <= MaxGen
  /\ \E r \in {InsertMem(c, d, collections, heap, indexes, nextId)} :
       /\ SetObjects(r.collections, r.heap, calls)
       /\ indexes' = r.indexes
       /\ nextId' = r.nextId
       /\ disk' = IF r.err THEN disk
                  ELSE WriteCollection(disk, c, Snapshot(r.collections[c], r.heap))
       /\ last' = Outcome("insert", c, r.err, r.id, 0, 0, 0, 0)
  /\ UNCHANGED <<isConnected, CoreState>>

\* insert called on the Store directly: no server or client is involved
Insert(c, d) == AwaitInsert(c, d) /\ UNCHANGED FrontEnd

\* the Store fields a run of insertMany works on; inserted counts the
\* results pushed (line 46)
InsertManyStart(colls, hp, ixs, nid, d) ==
  [collections |-> colls, heap |-> hp, indexes |-> ixs, nextId |-> nid,
   disk |-> d, err |-> FALSE, inserted |-> 0]

\* Collection.insertMany line 46 for one document: await this.insert(doc),
\* whose queued write is done when the awaited insert returns
InsertManyBody(st, c, d) ==
  With(InsertMem(c, d, st.collections, st.heap, st.indexes, st.nextId), LAMBDA r :
    [collections |-> r.collections, heap |-> r.heap, indexes |-> r.indexes,
     nextId |-> r.nextId,
     disk |-> IF r.err THEN st.disk
              ELSE WriteCollection(st.disk, c, Snapshot(r.collections[c], r.heap)),
     err |-> st.err \/ r.err,
     inserted |-> IF r.err THEN st.inserted ELSE st.inserted + 1])

RECURSIVE InsertManyLoopCatch(_, _, _, _)
\* (variant of InsertManyLoop: a rejected insert is skipped and the loop
\* goes on with the next document)
InsertManyLoopCatch(docs, i, c, st) ==
  IF i > Len(docs) THEN st
  ELSE With(InsertManyBody(st, c, docs[i]),
            LAMBDA s1 : InsertManyLoopCatch(docs, i + 1, c, s1))

RECURSIVE InsertManyLoop(_, _, _, _)
\* Collection.insertMany lines 45-47, from the i-th document on: the throw
\* of a rejected insert ends the loop
InsertManyLoop(docs, i, c, st) ==
  IF i > Len(docs) \/ st.err THEN st
  ELSE With(InsertManyBody(st, c, docs[i]),
            LAMBDA s1 : InsertManyLoop(docs, i + 1, c, s1))

\* await db.collection(c).insertMany(docs): every insert that succeeds
\* emits its documentInserted event
InsertMany(c, docs) ==
  /\ isConnected /\ Idle
  /\ nextId + Len(docs) - 1 <= MaxGen
  /\ \E r \in {InsertManyLoop(docs, 1, c,
                                InsertManyStart(collections, heap, indexes, nextId, disk))} :
       /\ SetObjects(r.collections, r.heap, calls)
       /\ indexes' = r.indexes
       /\ nextId' = r.nextId
       /\ disk' = r.disk
       /\ last' = [Outcome("insertMany", c, r.err, NoId, 0, 0, 0, 0)
                     EXCEPT !.events = [j \in 1..r.inserted |-> "documentInserted"]]
  /\ UNCHANGED <<FrontEnd, isConnected, CoreState>>

\* await db.collection(c).update(q, u, {upsert})
AwaitUpdate(c, q, u, upsert) ==
  /\ isConnected /\ Idle
  /\ \E colls0 \in {collection(collections, c)} :
     \E found \in {find(colls0[c], heap, q)} :
     \E r \in {UpdateLoop(found, 1, c, q, u, upsert,
                          UpdateStart(colls0, heap, indexes, nextId))} :
       /\ SetObjects(r.collections, r.heap, calls)
       /\ indexes' = r.indexes
       /\ nextId' = r.nextId
       /\ disk' = IF ~r.err /\ (r.updatedCount > 0 \/ r.upserted)
                  THEN WriteCollection(disk, c, Snapshot(r.collections[c], r.heap))
                  ELSE disk
       /\ last' = IF r.upserted
                  THEN Outcome("update", c, r.err, NoId, 0, 1, 1, 0)
                  ELSE Outcome("update", c, r.err, NoId, Len(found), r.updatedCount, 0, 0)
  /\ UNCHANGED <<isConnected, CoreState>>

\* update called on the Store directly
Update(c, q, u, upsert) == AwaitUpdate(c, q, u, upsert) /\ UNCHANGED FrontEnd

\* await db.collection(c).delete(q)
AwaitDelete(c, q) ==
  /\ isConnected /\ Idle
  /\ \E colls0 \in {collection(collections, c)} :
     \E found \in {find(colls0[c], heap, q)} :
     \E r \in {DeleteLoop(found, 1, c, heap,
                          [collections |-> colls0, indexes |-> indexes])} :
       /\ SetObjects(r.collections, heap, calls)
       /\ indexes' = r.indexes
       /\ disk' = IF Len(found) > 0
                  THEN WriteCollection(disk, c, Snapshot(r.collections[c], heap))
                  ELSE disk
       /\ last' = Outcome("delete", c, FALSE, NoId, 0, 0, 0, Len(found))
  /\ UNCHANGED <<nextId, isConnected, CoreState>>

\* delete called on the Store directly
Delete(c, q) == AwaitDelete(c, q) /\ UNCHANGED FrontEnd

\* await db.createIndex(c, fields, {unique, sparse, name})
CreateIndexNamed(c, spec, name) ==
  /\ isConnected /\ Idle
  /\ \E colls0 \in {collection(collections, c)} :
     \E b \in {BuildIndex(NewIndex(IndexNameOr(name, c, spec.fields), c, spec.fields,
                                   spec.unique, spec.sparse),
                          MapValues(colls0[c]), heap)} :
       /\ collections' = colls0
       /\ indexes' = IF b.err THEN indexes ELSE IndexesSet(indexes, b.ix)
       /\ disk' = IF b.err THEN disk ELSE WriteIndex(disk, b.ix.name, IndexFile(b.ix))
       /\ last' = Outcome("createIndex", c, b.err, NoId, 0, 0, 0, 0)
  /\ UNCHANGED <<FrontEnd, heap, calls, nextId, isConnected, CoreState>>

\* await db.createIndex(c, fields, {unique, sparse})
CreateIndex(c, spec) == CreateIndexNamed(c, spec, NoName)

\* await db.createCollection(c)
CreateCollection(c) ==
  /\ isConnected /\ Idle
  /\ \E colls0 \in {collection(collections, c)} :
       /\ collections' = colls0
       /\ disk' = WriteCollection(disk, c, Snapshot(colls0[c], heap))
  /\ last' = Outcome("createCollection", c, FALSE, NoId, 0, 0, 0, 0)
  /\ UNCHANGED <<FrontEnd, heap, calls, indexes, nextId, isConnected, CoreState>>

\* await db.dropCollection(c): the collection is unregistered, its file
\* unlinked, and every index bound to it unregistered and its file unlinked
AwaitDropCollection(c) ==
  /\ isConnected /\ Idle
  /\ IF c \in DOMAIN collections
     THEN /\ SetObjects(Without(collections, c), heap, calls)
          /\ indexes' = SelectSeq(indexes, LAMBDA ix : ix.collection # c)
          /\ disk' = [collections |-> Without(disk.collections, c),
                      indexes |-> [n \in {m \in DOMAIN disk.indexes :
                                            \A i \in 1..Len(indexes) :
                                              indexes[i].name = m =>
                                                indexes[i].collection # c}
                                     |-> disk.indexes[n]]]
          /\ last' = Outcome("dropCollection", c, FALSE, NoId, 0, 0, 0, 0)
     ELSE /\ last' = NoOutcome("dropCollection")
          /\ UNCHANGED <<collections, heap, calls, indexes, disk>>
  /\ UNCHANGED <<nextId, isConnected, CoreState>>

\* dropCollection called on the Store directly
DropCollection(c) == AwaitDropCollection(c) /\ UNCHANGED FrontEnd

\* await db.disconnect(): processWriteQueue returns at once (the queue is
\* empty), then the Store is marked disconnected
Disconnect ==
  /\ isConnected /\ Idle
  /\ isConnected' = FALSE
  /\ last' = NoOutcome("disconnect")
  /\ UNCHANGED <<FrontEnd, collections, heap, calls, indexes, nextId, disk, CoreState>>

\* what a file may hold when two writes of it were in flight together
Corrupt == << <<"corrupt">> >>

RECURSIVE LoadDocs(_, _, _)
\* CoreDB.loadCollection lines 73-78: a Map of the parsed documents that
\* have a truthy _id
LoadDocs(texts, m, hp) ==
  IF texts = <<>> THEN [map |-> m, heap |-> hp]
  ELSE With(DocOfJSON(Head(texts)), LAMBDA doc :
         IF doc._id # NoId
         THEN With([map |-> MapSet(m, doc._id, NewRef(hp)), heap |-> Append(hp, doc)],
                   LAMBDA l : LoadDocs(Tail(texts), l.map, l.heap))
         ELSE LoadDocs(Tail(texts), m, hp))

RECURSIVE LoadAll(_, _, _, _)
\* CoreDB.loadCollections: every <name>.json of the collections directory;
\* a file that does not parse gives an empty Map (line 85)
LoadAll(files, names, colls, hp) ==
  IF names = {} THEN [collections |-> colls, heap |-> hp]
  ELSE With(CHOOSE n \in names : TRUE, LAMBDA c :
         With(IF files[c] = Corrupt
              THEN [map |-> <<>>, heap |-> hp]
              ELSE LoadDocs(files[c], <<>>, hp),
              LAMBDA l : LoadAll(files, names \ {c}, (c :> l.map) @@ colls, l.heap)))

\* a new Store on the same storage root: new Database(...), then
\* await db.connect().  CoreDB.connect loads the collection files only.
Reconnect ==
  /\ ~isConnected /\ Idle
  /\ \E l \in {LoadAll(disk.collections, DOMAIN disk.collections, EmptyFn, <<>>)} :
       SetObjects(l.collections, l.heap, EmptyFn)
  /\ indexes' = <<>>
  /\ isConnected' = TRUE
  /\ writeQueue' = <<>>
  /\ isWriting' = FALSE
  /\ last' = NoOutcome("connect")
  /\ UNCHANGED <<FrontEnd, nextId, loops, saves, mq, disk>>

\* -------------------------------------------------- unawaited calls
\* The caller issues calls without awaiting them.  One action is one run
\* of the event loop up to the next await: a call runs to its first await
\* when it is issued, a continuation runs when it is first in the
\* microtask queue, and a finished fs.writeFile is delivered when the
\* microtask queue is empty.
Issue ==
  /\ isConnected
  /\ Cardinality(DOMAIN calls) < MaxCalls
  /\ Len(writeQueue) < MaxQueue

\* call k goes on after queueWrite / processWriteQueue returned w
AwaitQueue(k, f, w, colls, hp) ==
  \E w1 \in {w} :
    /\ SetWState(AwaitWrite(w1, k))
    /\ SetObjects(colls, hp, (k :> [f EXCEPT !.pc = PcAfterWrite(w1, k)]) @@ calls)

\* db.collection(c).insert(d), not awaited
CallInsert(c, d) ==
  /\ Issue
  /\ nextId <= MaxConcGen
  /\ \E k \in {NewSlot} :
     \E r \in {InsertMem(c, d, collections, heap, indexes, nextId)} :
       /\ indexes' = r.indexes
       /\ nextId' = r.nextId
       /\ IF r.err
          THEN /\ SetObjects(r.collections, r.heap, calls)
               /\ last' = Outcome("insert", c, TRUE, r.id, 0, 0, 0, 0)
               /\ UNCHANGED CoreState
          ELSE /\ AwaitQueue(k, Frame("insert", c, "", <<>>, NoQuery, NoUpdate, FALSE,
                                      Outcome("insert", c, FALSE, r.id, 0, 0, 0, 0)),
                             queueWrite(WState, k, c, r.collections, r.heap),
                             r.collections, r.heap)
               /\ UNCHANGED last
  /\ UNCHANGED <<FrontEnd, isConnected, disk>>

\* db.collection(c).update(q, u, {upsert}), not awaited: up to the await
\* of find (line 87)
CallUpdate(c, q, u, upsert) ==
  /\ Issue
  /\ \E colls0 \in {collection(collections, c)} :
       SetObjects(colls0, heap,
                  (NewSlot :> Frame("update", c, "apply", find(colls0[c], heap, q), q, u,
                                    upsert, NoOutcome("update"))) @@ calls)
  /\ mq' = Append(mq, [kind |-> "call", id |-> NewSlot])
  /\ UNCHANGED <<FrontEnd, indexes, nextId, isConnected, writeQueue, isWriting, loops, saves,
                 disk, last>>

\* update lines 88-118, after find has resolved
UpdateApply(k) ==
  /\ mq # <<>> /\ Head(mq) = [kind |-> "call", id |-> k]
  /\ calls[k].op = "update" /\ calls[k].pc = "apply"
  /\ \E f \in {calls[k]} :
     \E r \in {UpdateLoop(f.found, 1, f.coll, f.query, f.update, f.upsert,
                          UpdateStart(collections, heap, indexes, nextId))} :
     \E result \in {IF r.upserted
                     THEN Outcome("update", f.coll, r.err, NoId, 0, 1, 1, 0)
                     ELSE Outcome("update", f.coll, r.err, NoId, Len(f.found),
                                  r.updatedCount, 0, 0)} :
     \E w0 \in {[WState EXCEPT !.mq = Tail(@)]} :
       /\ indexes' = r.indexes
       /\ nextId' = r.nextId
       /\ IF r.err \/ (r.updatedCount = 0 /\ ~r.upserted)
          THEN /\ SetObjects(r.collections, r.heap, Without(calls, k))
               /\ SetWState(w0)
               /\ last' = result
          ELSE /\ AwaitQueue(k, [f EXCEPT !.found = <<>>, !.result = result],
                             queueWrite(w0, k, f.coll, r.collections, r.heap),
                             r.collections, r.heap)
               /\ UNCHANGED last
  /\ UNCHANGED <<FrontEnd, isConnected, disk>>

\* db.collection(c).delete(q), not awaited: up to the await of find
CallDelete(c, q) ==
  /\ Issue
  /\ \E colls0 \in {collection(collections, c)} :
       SetObjects(colls0, heap,
                  (NewSlot :> Frame("delete", c, "apply", find(colls0[c], heap, q), q,
                                    NoUpdate, FALSE, NoOutcome("delete"))) @@ calls)
  /\ mq' = Append(mq, [kind |-> "call", id |-> NewSlot])
  /\ UNCHANGED <<FrontEnd, indexes, nextId, isConnected, writeQueue, isWriting, loops, saves,
                 disk, last>>

\* (variant of DeleteApply: the save is queued and the event emitted also
\* when no document was found)
DeleteApplyAlways(k) ==
  /\ mq # <<>> /\ Head(mq) = [kind |-> "call", id |-> k]
  /\ calls[k].op = "delete" /\ calls[k].pc = "apply"
  /\ \E f \in {calls[k]} :
     \E r \in {DeleteLoop(f.found, 1, f.coll, heap,
                          [collections |-> collections, indexes |-> indexes])} :
     \E result \in {Outcome("delete", f.coll, FALSE, NoId, 0, 0, 0, Len(f.found))} :
     \E w0 \in {[WState EXCEPT !.mq = Tail(@)]} :
       /\ indexes' = r.indexes
       /\ AwaitQueue(k, [f EXCEPT !.found = <<>>, !.result = result],
                     queueWrite(w0, k, f.coll, r.collections, heap),
                     r.collections, heap)
       /\ UNCHANGED last
  /\ UNCHANGED <<FrontEnd, nextId, isConnected, disk>>

\* delete lines 133-148, after find has resolved
DeleteApply(k) ==
  /\ mq # <<>> /\ Head(mq) = [kind |-> "call", id |-> k]
  /\ calls[k].op = "delete" /\ calls[k].pc = "apply"
  /\ \E f \in {calls[k]} :
     \E r \in {DeleteLoop(f.found, 1, f.coll, heap,
                          [collections |-> collections, indexes |-> indexes])} :
     \E result \in {Outcome("delete", f.coll, FALSE, NoId, 0, 0, 0, Len(f.found))} :
     \E w0 \in {[WState EXCEPT !.mq = Tail(@)]} :
       /\ indexes' = r.indexes
       /\ IF Len(f.found) = 0
          THEN /\ SetObjects(r.collections, heap, Without(calls, k))
               /\ SetWState(w0)
               /\ last' = result
          ELSE /\ AwaitQueue(k, [f EXCEPT !.found = <<>>, !.result = result],
                             queueWrite(w0, k, f.coll, r.collections, heap),
                             r.collections, heap)
               /\ UNCHANGED last
  /\ UNCHANGED <<FrontEnd, nextId, isConnected, disk>>

\* db.createCollection(c), not awaited: saveCollection is called directly
\* (line 411), not through queueWrite
CallCreateCollection(c) ==
  /\ Issue
  /\ \E k \in {NewSlot} :
     \E colls0 \in {collection(collections, c)} :
       /\ saves' = SaveStart(saves, c, colls0, heap, [kind |-> "call", id |-> k])
       /\ SetObjects(colls0, heap,
                     (k :> Frame("createCollection", c, "awaitSave", <<>>, NoQuery,
                                 NoUpdate, FALSE, NoOutcome("createCollection")))
                       @@ calls)
  /\ UNCHANGED <<FrontEnd, indexes, nextId, isConnected, writeQueue, isWriting, loops, mq,
                 disk, last>>

\* db.disconnect(), not awaited: up to the await of processWriteQueue
CallDisconnect ==
  /\ Issue
  /\ \E k \in {NewSlot} :
       AwaitQueue(k, Frame("disconnect", "", "", <<>>, NoQuery, NoUpdate, FALSE,
                           NoOutcome("disconnect")),
                  processWriteQueue(WState, k, collections, heap), collections, heap)
  /\ UNCHANGED <<FrontEnd, indexes, nextId, isConnected, disk, last>>

\* the rest of call k after its last await: it settles with its result;
\* disconnect marks the Store disconnected (line 44)
Settle(k) ==
  /\ mq # <<>> /\ Head(mq) = [kind |-> "call", id |-> k]
  /\ calls[k].pc = "settle"
  /\ mq' = Tail(mq)
  /\ calls' = Without(calls, k)
  /\ last' = calls[k].result
  /\ isConnected' = IF calls[k].op = "disconnect" THEN FALSE ELSE isConnected
  /\ UNCHANGED <<FrontEnd, collections, heap, indexes, nextId, writeQueue, isWriting, loops,
                 saves, disk>>

\* db.indexes without the index named name
IndexesDelete(ixs, name) == SelectSeq(ixs, LAMBDA ix : ix.name # name)

\* fs.unlink of a file has completed
RemoveFile(d, kind, name) ==
  IF kind = "unlinkCollection"
  THEN [d EXCEPT !.collections = Without(@, name[1])]
  ELSE [d EXCEPT !.indexes = Without(@, name)]

\* db.dropCollection(c), not awaited: lines 416-422, up to the await of
\* fs.unlink; nothing happens when the collection is not registered
CallDropCollection(c) ==
  /\ Issue
  /\ \E k \in {NewSlot} :
       IF c \in DOMAIN collections
       THEN /\ SetObjects(Without(collections, c), heap,
                          (k :> Frame("dropCollection", c, "awaitUnlink", <<>>, NoQuery,
                                      NoUpdate, FALSE,
                                      Outcome("dropCollection", c, FALSE, NoId, 0, 0, 0, 0)))
                            @@ calls)
            /\ saves' = saves \cup {Unlink("unlinkCollection", <<c>>,
                                            [kind |-> "call", id |-> k])}
            /\ UNCHANGED last
       ELSE /\ last' = NoOutcome("dropCollection")
            /\ UNCHANGED <<collections, heap, calls, saves>>
  /\ UNCHANGED <<FrontEnd, indexes, nextId, isConnected, writeQueue, isWriting, loops, mq, disk>>

\* an fs.unlink in flight completes: the file is gone, and the
\* dropCollection call that awaits it goes on
UnlinkDone(s) ==
  /\ mq = <<>>
  /\ s \in saves /\ s.kind \in {"unlinkCollection", "unlinkIndex"}
  /\ saves' = {IF UnlinkOf(t.kind) = s.kind /\ t.name = s.name
                THEN [t EXCEPT !.unlinked = TRUE] ELSE t : t \in saves \ {s}}
  /\ mq' = <<s.by>>
  /\ disk' = RemoveFile(disk, s.kind, s.name)
  /\ calls' = [calls EXCEPT ![s.by.id].pc = "dropIndexes"]
  /\ UNCHANGED <<FrontEnd, collections, heap, indexes, nextId, isConnected, writeQueue,
                 isWriting, loops, last>>

\* dropCollection lines 428-435, after an await: the next index bound to
\* the collection is unregistered and dropped (up to the await of its
\* fs.unlink); when none is left the event is emitted and the call settles
DropResume(k) ==
  /\ mq # <<>> /\ Head(mq) = [kind |-> "call", id |-> k]
  /\ calls[k].pc = "dropIndexes"
  /\ mq' = Tail(mq)
  /\ \E bound \in {getIndexes(indexes, calls[k].coll)} :
       IF bound # <<>>
       THEN /\ indexes' = IndexesDelete(indexes, bound[1].name)
            /\ saves' = saves \cup {Unlink("unlinkIndex", bound[1].name,
                                            [kind |-> "call", id |-> k])}
            /\ calls' = [calls EXCEPT ![k].pc = "awaitUnlink"]
            /\ UNCHANGED last
       ELSE /\ calls' = Without(calls, k)
            /\ last' = calls[k].result
            /\ UNCHANGED <<indexes, saves>>
  /\ UNCHANGED <<FrontEnd, collections, heap, nextId, isConnected, writeQueue, isWriting,
                 loops, disk>>

\* (mutation of LoopResume: the loop ends without `this.isWriting = false`)
LoopResumeBusy(k) ==
  /\ mq # <<>> /\ Head(mq) = [kind |-> "loop", id |-> k]
  /\ \E w0 \in {[WState EXCEPT !.mq = Tail(@)]} :
       IF w0.writeQueue # <<>>
       THEN /\ SetWState(LoopIteration(w0, k, collections, heap))
            /\ UNCHANGED calls
       ELSE /\ SetWState([w0 EXCEPT !.loops = @ \ {k},
                                    !.mq = Append(@, [kind |-> "call", id |-> k])])
            /\ calls' = [calls EXCEPT ![k].pc = "settle"]
  /\ UNCHANGED <<FrontEnd, collections, heap, indexes, nextId, isConnected, disk, last>>

\* processWriteQueue of call k after `await operation()`: the next
\* operation of the queue (lines 133-136), or the end of the loop (line
\* 142) and the return to its caller
LoopResume(k) ==
  /\ mq # <<>> /\ Head(mq) = [kind |-> "loop", id |-> k]
  /\ \E w0 \in {[WState EXCEPT !.mq = Tail(@)]} :
       IF w0.writeQueue # <<>>
       THEN /\ SetWState(LoopIteration(w0, k, collections, heap))
            /\ UNCHANGED calls
       ELSE /\ SetWState([w0 EXCEPT !.isWriting = FALSE, !.loops = @ \ {k},
                                    !.mq = Append(@, [kind |-> "call", id |-> k])])
            /\ calls' = [calls EXCEPT ![k].pc = "settle"]
  /\ UNCHANGED <<FrontEnd, collections, heap, indexes, nextId, isConnected, disk, last>>

\* the outcome of a write whose file was unlinked after the write had
\* opened it: the text goes to the removed file
Removed == << <<"removed">> >>

\* an fs.writeFile in flight completes: the file holds its text (or, when
\* another write of the same file was in flight with it, possibly a mix of
\* the two; or, when the file was unlinked meanwhile, the file exists again
\* or not, as the write opened it after or before the unlink), and whoever
\* awaits it goes on
SaveDone(s) ==
  /\ mq = <<>>
  /\ s \in saves /\ s.kind = "collection"
  /\ saves' = saves \ {s}
  /\ mq' = <<s.by>>
  /\ \E text \in {s.docs} \cup (IF s.raced THEN {Corrupt} ELSE {})
                         \cup (IF s.unlinked THEN {Removed} ELSE {}) :
       disk' = IF text = Removed THEN disk
               ELSE WriteCollection(disk, s.name[1], text)
  /\ calls' = IF s.by.kind = "call" THEN [calls EXCEPT ![s.by.id].pc = "settle"] ELSE calls
  /\ UNCHANGED <<FrontEnd, collections, heap, indexes, nextId, isConnected, writeQueue,
                 isWriting, loops, last>>

\* an fs.writeFile in flight fails: saveCollection catches the error (lines
\* 116-118) and returns, and so does the try/catch of the write loop for an
\* operation that throws (lines 135-139); the file is left as it was and
\* whoever awaits the operation goes on
SaveFail(s) ==
  /\ mq = <<>>
  /\ s \in saves /\ s.kind = "collection"
  /\ saves' = saves \ {s}
  /\ mq' = <<s.by>>
  /\ calls' = IF s.by.kind = "call" THEN [calls EXCEPT ![s.by.id].pc = "settle"] ELSE calls
  /\ UNCHANGED <<FrontEnd, collections, heap, indexes, nextId, isConnected, writeQueue,
                 isWriting, loops, disk, last>>

\* ------------------------------------------- queries with combinators
\* A query with combinators: `fields` are its entries whose keys do not
\* start with '$' (each a one-field query), and each of $and, $or, $nor is a
\* clause, present or not, with its array of sub-queries.
Clause(present, subs) == [present |-> present, subs |-> subs]
Absent == Clause(FALSE, <<>>)

\* Collection.handleQueryOperators: `if (query.$and) return ...every(...)`,
\* `if (query.$or) return ...some(...)`, `if (query.$nor) return !...some(...)`,
\* `return true`; an array, the empty one too, is truthy
handleQueryOperators(doc, q) ==
  IF q.and.present
  THEN \A i \in 1..Len(q.and.subs) : matchesQuery(doc, q.and.subs[i])
  ELSE IF q.or.present
  THEN \E i \in 1..Len(q.or.subs) : matchesQuery(doc, q.or.subs[i])
  ELSE IF q.nor.present
  THEN ~ \E i \in 1..Len(q.nor.subs) : matchesQuery(doc, q.nor.subs[i])
  ELSE TRUE

\* Collection.matchesQuery for a query with combinators: the loop over the
\* entries that skips the '$' keys, then handleQueryOperators
matchesQueryOperators(doc, q) ==
  IF \E i \in 1..Len(q.fields) : ~matchesQuery(doc, q.fields[i]) THEN FALSE
  ELSE handleQueryOperators(doc, q)

\* the documents and queries the evaluation draws
EvalDocs == [_id : {1}, email : {"a", Undef}, name : ScalarNames]
FieldQueries ==
  {[field |-> "email", val |-> "a", idv |-> NoId]}
    \cup {NameQuery(v) : v \in ScalarNames}
Clauses ==
  {Absent, Clause(TRUE, <<>>)} \cup {Clause(TRUE, <<p>>) : p \in FieldQueries}
CombinedQueries ==
  [fields : {<<>>} \cup {<<p>> : p \in FieldQueries},
   and : Clauses, or : Clauses, nor : Clauses]

\* what an evaluation leaves in `last`: the function, its input, its result;
\* a behaviour evaluates one call
Evaluated(op, in, out) == [op |-> op, in |-> in, out |-> out]

\* collection.matchesQuery(doc, q) is evaluated
EvalMatchesQuery(doc, q) ==
  /\ last.op = "none"
  /\ last' = Evaluated("matchesQuery", <<doc, q>>, matchesQueryOperators(doc, q))
  /\ UNCHANGED <<FrontEnd, collections, heap, indexes, nextId, isConnected, writeQueue,
                 isWriting, loops, saves, calls, mq, disk>>

\* --------------------------------------------------------- aggregation
\* Documents of the aggregation carry a number field `age`. A value of a
\* group document is a number, the quotient sum / count, or the object
\* {sum, count} the $avg accumulator starts from.
Quotient(sum, count) == [t |-> "number", sum |-> sum, count |-> count]
SumCount(sum, count) == [t |-> "object", sum |-> sum, count |-> count]
\* `!groupDoc[field]`: the field is missing or holds the number 0
Falsy(groupDoc, field) ==
  \/ field \notin DOMAIN groupDoc
  \/ groupDoc[field].t = "number" /\ groupDoc[field].sum = 0

\* Collection.handleComparisonOperators for {$gte: value} (lines 219-221)
handleComparisonOperators(docValue, queryObj) ==
  IF queryObj.op = "$gte" /\ docValue < queryObj.value THEN FALSE ELSE TRUE

\* Collection.applyQuery for the query {age: queryObj}
applyQuery(documents, queryObj) ==
  SelectSeq(documents, LAMBDA doc : handleComparisonOperators(doc.age, queryObj))

\* Database.applyAccumulator lines 554-576: `if (!groupDoc[field])` the
\* accumulator is initialised: 0 for $sum, {sum: 0, count: 0} for $avg, the
\* (defined) value for $min and $max
AccumulatorInit(groupDoc, field, operator, value) ==
  IF Falsy(groupDoc, field)
  THEN (field :> CASE operator = "$avg" -> SumCount(0, 0)
                   [] operator \in {"$min", "$max"} -> Quotient(value, 1)
                   [] OTHER -> Quotient(0, 1))
         @@ groupDoc
  ELSE groupDoc

\* Database.applyAccumulator, operators $sum, $avg, $min and $max on a
\* defined number: the initialisation, then the switch; $avg replaces the
\* {sum, count} object by the number sum / count and leaves a number alone
applyAccumulator(groupDoc, field, operator, value) ==
  With(AccumulatorInit(groupDoc, field, operator, value),
       LAMBDA g :
         CASE operator = "$sum" ->
                [g EXCEPT ![field] = Quotient(@.sum + value * @.count, @.count)]
           [] operator = "$avg" ->
                IF g[field].t = "object"
                THEN [g EXCEPT ![field] = Quotient(@.sum + value, @.count + 1)]
                ELSE g
           [] operator = "$min" ->
                IF value < g[field].sum THEN [g EXCEPT ![field] = Quotient(value, 1)]
                ELSE g
           [] operator = "$max" ->
                IF value > g[field].sum THEN [g EXCEPT ![field] = Quotient(value, 1)]
                ELSE g)

RECURSIVE Accumulate(_, _, _, _)
\* Database.applyGroupStage lines 518-531: the loop over the entries of the
\* group spec other than _id, for one document; an accumulator whose
\* argument is not a string ({$sum: 1}) is skipped with a warning
Accumulate(groupDoc, doc, accs, i) ==
  IF i > Len(accs) THEN groupDoc
  ELSE Accumulate(IF accs[i].isString
                  THEN applyAccumulator(groupDoc, accs[i].field, accs[i].operator,
                                        doc[accs[i].fieldPath])
                  ELSE groupDoc,
                  doc, accs, i + 1)

RECURSIVE GroupLoop(_, _, _, _)
\* Database.applyGroupStage for _id: null (getGroupKey returns null for
\* every document): the group document is created at the first document
GroupLoop(groups, documents, accs, i) ==
  IF i > Len(documents) THEN groups
  ELSE With(IF groups = <<>> THEN << [_id |-> [t |-> "null", sum |-> 0, count |-> 0]] >>
            ELSE groups,
            LAMBDA gs :
              GroupLoop(<< Accumulate(gs[1], documents[i], accs, 1) >>,
                        documents, accs, i + 1))

applyGroupStage(documents, group) == GroupLoop(<<>>, documents, group.accs, 1)

RECURSIVE aggregateFrom(_, _, _)
\* Database.aggregate lines 475-500: the stages in order
aggregateFrom(results, pipeline, i) ==
  IF i > Len(pipeline) THEN results
  ELSE aggregateFrom(CASE pipeline[i].op = "$match" ->
                            applyQuery(results, pipeline[i].value)
                       [] pipeline[i].op = "$group" ->
                            applyGroupStage(results, pipeline[i].value),
                     pipeline, i + 1)

aggregate(documents, pipeline) == aggregateFrom(documents, pipeline, 1)

\* the documents and the pipeline the evaluation draws: ages 18, 25, 30 and
\* [{$match: {age: {$gte: t}}},
\*  {$group: {_id: null, avg: {$avg: 'age'}, count: {$sum: 1}}}]
MaxAgeDocs == 3
Ages == {18, 25, 30}
AgeDocs == UNION {[1..n -> [age : Ages]] : n \in 0..MaxAgeDocs}
Thresholds == {20, 26}
Accumulator(field, operator, isString, fieldPath) ==
  [field |-> field, operator |-> operator, isString |-> isString,
   fieldPath |-> fieldPath]
AvgCountPipeline(t) ==
  << [op |-> "$match", value |-> [op |-> "$gte", value |-> t]],
     [op |-> "$group",
      value |-> [accs |-> << Accumulator("avg", "$avg", TRUE, "age"),
                             Accumulator("count", "$sum", FALSE, "1") >>]] >>

\* documents with a number that may be 0 or negative, and the pipeline
\* [{$group: {_id: null, min: {$min: 'age'}, max: {$max: 'age'}}}]
SignedAges == {0 - 1, 0, 2}
SignedDocs == UNION {[1..n -> [age : SignedAges]] : n \in 1..MaxAgeDocs}
MinMaxPipeline ==
  << [op |-> "$group",
      value |-> [accs |-> << Accumulator("min", "$min", TRUE, "age"),
                             Accumulator("max", "$max", TRUE, "age") >>]] >>

\* db.aggregate(collection, MinMaxPipeline) is evaluated over the documents
EvalMinMax(documents) ==
  /\ last.op = "none"
  /\ last' = Evaluated("minmax", documents, aggregate(documents, MinMaxPipeline))
  /\ UNCHANGED <<FrontEnd, collections, heap, indexes, nextId, isConnected, writeQueue,
                 isWriting, loops, saves, calls, mq, disk>>

\* db.aggregate(collection, pipeline) is evaluated over the documents
EvalAggregate(documents, t) ==
  /\ last.op = "none"
  /\ last' = Evaluated("aggregate", <<documents, t>>,
                       aggregate(documents, AvgCountPipeline(t)))
  /\ UNCHANGED <<FrontEnd, collections, heap, indexes, nextId, isConnected, writeQueue,
                 isWriting, loops, saves, calls, mq, disk>>

\* ---------------------------------------------------------- pagination
\* An option of find is absent (undefined) or a number.
NoOption == [present |-> FALSE, n |-> 0]
Option(n) == [present |-> TRUE, n |-> n]
\* `options.x || d`: undefined and 0 are falsy
OrDefault(o, d) == IF o.present /\ o.n # 0 THEN o.n ELSE d

\* Array.prototype.slice(start, end) for 0 <= start <= end
slice(documents, start, end) ==
  [i \in 1..((IF end < Len(documents) THEN end ELSE Len(documents))
               - (IF start < Len(documents) THEN start ELSE Len(documents)))
     |-> documents[start + i]]

\* a pagination that takes the limit first and skips within it
applyPaginationLimitFirst(documents, options) ==
  With(OrDefault(options.skip, 0), LAMBDA skip :
    With(OrDefault(options.limit, Len(documents)), LAMBDA limit :
      slice(slice(documents, 0, limit), skip, Len(documents))))

\* Collection.applyPagination
applyPagination(documents, options) ==
  With(OrDefault(options.skip, 0), LAMBDA skip :
    With(OrDefault(options.limit, Len(documents)), LAMBDA limit :
      slice(documents, skip, skip + limit)))

\* Collection.find lines 73-78: `if (options.limit || options.skip)`
Paginate(results, options) ==
  IF OrDefault(options.limit, 0) # 0 \/ OrDefault(options.skip, 0) # 0
  THEN applyPagination(results, options)
  ELSE results

\* the matched and sorted sequences and the options the evaluation draws
MaxPageDocs == 4
PageDocs == {[i \in 1..n |-> i] : n \in 0..MaxPageDocs}
PageOptions ==
  [skip : {NoOption} \cup {Option(n) : n \in 0..MaxPageDocs + 1},
   limit : {NoOption} \cup {Option(n) : n \in 0..MaxPageDocs + 1}]

\* find(query, options) has matched and sorted `results` and paginates
EvalPaginate(results, options) ==
  /\ last.op = "none"
  /\ last' = Evaluated("paginate", <<results, options>>, Paginate(results, options))
  /\ UNCHANGED <<FrontEnd, collections, heap, indexes, nextId, isConnected, writeQueue,
                 isWriting, loops, saves, calls, mq, disk>>

\* -------------------------------------------------- nested documents
\* documents with a nested mapping `address`, and the update specs
\* {$set: {'address.city': v}} and {$set: {name: v}}
NestedDocs ==
  [_id : {1}, name : NameVals, address : [city : {"NY", "SF"}, country : {"USA"}]]
NestedUpdates ==
  {[kind |-> "$set", field |-> f, val |-> v, idv |-> NoId] :
     f \in {"address.city", "name"}, v \in {"LA", "NY"}}

\* collection.applyUpdateOperations(doc, u) is evaluated
EvalApplyUpdate(doc, u) ==
  /\ last.op = "none"
  /\ last' = Evaluated("applyUpdateOperations", <<doc, u>>,
                       applyUpdateOperations(doc, u))
  /\ UNCHANGED <<FrontEnd, collections, heap, indexes, nextId, isConnected, writeQueue,
                 isWriting, loops, saves, calls, mq, disk>>

\* ------------------------------------------------- insert's own fields
\* an insert that assigns each of the three fields only when it is missing
insertFieldsIfAbsent(document, generated, now) ==
  [[document EXCEPT !._id = IF @ = NoId THEN generated ELSE @]
     EXCEPT !._createdAt = IF @ = Undef THEN now ELSE @,
            !._updatedAt = IF @ = Undef THEN now ELSE @]

\* Collection.insert lines 17-22 on a document that may bring _id,
\* _createdAt and _updatedAt: `if (!document._id)` the generated id, then
\* both timestamps are assigned new Date().toISOString()
insertFields(document, generated, now) ==
  [[document EXCEPT !._id = IF @ = NoId THEN generated ELSE @]
     EXCEPT !._createdAt = now, !._updatedAt = now]

\* documents with and without the three fields, and the clock's values
StampDocs ==
  [_id : {NoId, CallerId}, _createdAt : {Undef, "t0"}, _updatedAt : {Undef, "t0"},
   name : NameVals]
Clock == {"t1", "t2"}

\* collection.insert(document) is evaluated: the document the Map stores and
\* the document returned are the one object `document`
EvalInsert(document, generated, now) ==
  /\ last.op = "none"
  /\ \E doc \in {insertFields(document, generated, now)} :
       last' = Evaluated("insert", <<document, generated, now>>,
                         [stored |-> doc, returned |-> doc])
  /\ UNCHANGED <<FrontEnd, collections, heap, indexes, nextId, isConnected, writeQueue,
                 isWriting, loops, saves, calls, mq, disk>>

\* ---------------------------------------------------------- index names
\* db.indexes.get(indexName): the entries registered under the name
IndexesGet(ixs, name) == SelectSeq(ixs, LAMBDA ix : ix.name = name)

\* await db.collection(c).dropIndex(name): Collection.dropIndex, lines
\* 342-348; the index is unregistered and its file unlinked only when it
\* is bound to this collection
DropIndex(c, name) ==
  /\ isConnected /\ Idle
  /\ \E colls0 \in {collection(collections, c)} :
     \E found \in {IndexesGet(indexes, name)} :
       /\ collections' = colls0
       /\ IF found # <<>> /\ found[1].collection = c
          THEN /\ indexes' = IndexesDelete(indexes, name)
               /\ disk' = RemoveFile(disk, "unlinkIndex", name)
          ELSE UNCHANGED <<indexes, disk>>
       /\ last' = Outcome("dropIndex", c, FALSE, NoId, 0, 0, 0, 0)
  /\ UNCHANGED <<FrontEnd, heap, calls, nextId, isConnected, CoreState>>

\* await db.dropIndex(name): Database.dropIndex, lines 448-454, hands the
\* call to the collection the index is bound to
DatabaseDropIndex(name) ==
  \E found \in {IndexesGet(indexes, name)} :
    IF found # <<>>
    THEN DropIndex(found[1].collection, name)
    ELSE /\ isConnected /\ Idle
         /\ last' = NoOutcome("dropIndex")
         /\ UNCHANGED <<FrontEnd, collections, heap, indexes, calls, nextId,
                        isConnected, disk, CoreState>>

\* two collections whose default index names coincide: createIndex on
\* "users" with fields email, name and on "users_email" with field name
\* both give `users_email_name`
NameColls == {"users", "users_email"}
NameFields(c) == IF c = "users" THEN <<"email", "name">> ELSE <<"name">>
NameSpec(c) == [fields |-> NameFields(c), unique |-> FALSE, sparse |-> FALSE]
\* options.name: not given, or the name "idx"
GivenNames == {NoName, <<"idx">>}
\* the names dropIndex is called with
DropNames == {<<"idx">>} \cup {IndexName(c, NameFields(c)) : c \in NameColls}

\* ------------------------------------------------------ DatabaseServer
\* `find:${collectionName}:${JSON.stringify(body)}`: the key names the
\* collection and the request body; for the collection names used here a
\* key starts with `find:${c}:` exactly when it was built for c
CacheKey(c, body) == [collection |-> c, body |-> body]

\* this.cache.has(key) / this.cache.get(key)
CacheHas(ch, key) == \E i \in 1..Len(ch) : ch[i].key = key
CacheGet(ch, key) == ch[CHOOSE i \in 1..Len(ch) : ch[i].key = key].response

\* this.cache.set(key, response): a new key goes last, a stored key keeps
\* its place
CacheSet(ch, key, resp) ==
  IF CacheHas(ch, key)
  THEN [i \in 1..Len(ch) |-> IF ch[i].key = key THEN [key |-> key, response |-> resp]
                                                ELSE ch[i]]
  ELSE Append(ch, [key |-> key, response |-> resp])

\* manageCacheSize, lines 684-692: when the cache holds more than cacheSize
\* entries the first Math.floor(cacheSize * 0.1) keys are deleted
manageCacheSize(ch, size) ==
  IF Len(ch) > size THEN SubSeq(ch, (size \div 10) + 1, Len(ch)) ELSE ch

\* invalidateCollectionCache, lines 675-682
invalidateCollectionCache(ch, c) == SelectSeq(ch, LAMBDA e : e.key.collection # c)

\* the response of findDocuments (lines 401-405) as JSON.stringify writes
\* it: the matching documents by value
FindResponse(colls, hp, c, body) ==
  With(find(collection(colls, c)[c], hp, body.query), LAMBDA results :
    [kind |-> "find", collection |-> c, count |-> Len(results),
     results |-> [i \in 1..Len(results) |-> hp[results[i]]]])

\* the response of a write request: {success: true, collection, ...}, or
\* the error response of handleRequest (lines 208-218) when the handler threw
WriteResponse(kind, c, err) ==
  [kind |-> IF err THEN "error" ELSE kind, collection |-> c, count |-> 0, results |-> <<>>]

\* broadcast(message), lines 662-670, called without a collection: the
\* message goes to every open socket, subscribed or not
broadcast(sent, open, type, c) ==
  IF open THEN Append(sent, Message(type, NoMessageId, c)) ELSE sent

\* findDocuments, lines 390-416, with options.cache on: a stored response
\* is returned as it is; otherwise the collection is searched and the
\* response stored
findDocuments(c, body) ==
  /\ isConnected /\ Idle
  /\ \E key \in {CacheKey(c, body)} :
       IF CacheHas(cache, key)
       THEN /\ response' = CacheGet(cache, key)
            /\ UNCHANGED <<cache, collections>>
       ELSE \E resp \in {FindResponse(collections, heap, c, body)} :
              /\ collections' = collection(collections, c)
              /\ response' = resp
              /\ cache' = manageCacheSize(CacheSet(cache, key, resp), cacheSize)
  /\ last' = NoOutcome("find")
  /\ UNCHANGED <<heap, indexes, calls, nextId, isConnected, disk, CoreState, cacheSize>>

\* a find request over HTTP (routes, lines 284 and 290)
FindDocuments(c, body) ==
  /\ findDocuments(c, body)
  /\ UNCHANGED <<wsOpen, subscriptions, messageId, pendingRequests, toServer, toClient>>

\* insertDocument, lines 418-447, with one document: the cache is
\* invalidated and the change broadcast after insert has returned; when
\* insert throws neither happens
InsertDocument(c, d) ==
  /\ AwaitInsert(c, d)
  /\ cache' = IF last'.err THEN cache ELSE invalidateCollectionCache(cache, c)
  /\ toClient' = IF last'.err THEN toClient
                 ELSE broadcast(toClient, wsOpen, "documentInserted", c)
  /\ response' = WriteResponse("insert", c, last'.err)
  /\ UNCHANGED <<cacheSize, wsOpen, subscriptions, messageId, pendingRequests, toServer>>

\* updateDocuments, lines 449-476
UpdateDocuments(c, q, u) ==
  /\ AwaitUpdate(c, q, u, FALSE)
  /\ cache' = IF last'.err THEN cache ELSE invalidateCollectionCache(cache, c)
  /\ toClient' = IF last'.err THEN toClient
                 ELSE broadcast(toClient, wsOpen, "documentsUpdated", c)
  /\ response' = WriteResponse("update", c, last'.err)
  /\ UNCHANGED <<cacheSize, wsOpen, subscriptions, messageId, pendingRequests, toServer>>

\* deleteDocuments, lines 478-501
DeleteDocuments(c, q) ==
  /\ AwaitDelete(c, q)
  /\ cache' = IF last'.err THEN cache ELSE invalidateCollectionCache(cache, c)
  /\ toClient' = IF last'.err THEN toClient
                 ELSE broadcast(toClient, wsOpen, "documentsDeleted", c)
  /\ response' = WriteResponse("delete", c, last'.err)
  /\ UNCHANGED <<cacheSize, wsOpen, subscriptions, messageId, pendingRequests, toServer>>

\* dropCollection of the server, lines 382-388: the Store drops the
\* collection; the cache is not touched
ServerDropCollection(c) ==
  /\ AwaitDropCollection(c)
  /\ response' = WriteResponse("dropCollection", c, FALSE)
  /\ UNCHANGED <<cache, cacheSize, wsOpen, subscriptions, messageId, pendingRequests,
                 toServer, toClient>>

\* the query {email: v}
EmailQuery(v) == [field |-> "email", val |-> v, idv |-> NoId]

\* the request bodies of find: {} and {query: {email: 'a'}}
Bodies == {[query |-> NoQuery], [query |-> EmailQuery("a")]}
\* the configured cacheSize
CacheSizes == {1, 2}

\* ------------------------------------------------------------ DBClient
\* number of requests the client sends on its socket
MaxRequests == 3

\* wsRequest(type, collection, data), lines 135-147, on a connected
\* socket: the id is messageId before its increment, resolve and reject
\* are stored under it and the message is sent
WsRequest(type, c, body) ==
  /\ wsOpen
  /\ messageId < MaxRequests
  /\ pendingRequests' = pendingRequests \cup {messageId}
  /\ toServer' = Append(toServer, [type |-> type, id |-> messageId, collection |-> c,
                                   body |-> body])
  /\ messageId' = messageId + 1
  /\ UNCHANGED <<collections, heap, indexes, nextId, isConnected, calls, disk, last,
                 CoreState, cache, cacheSize, response, wsOpen, subscriptions, toClient>>

\* handleWebSocketMessage with handleSubscribe / handleUnsubscribe, lines
\* 557-602: the answer carries no id
HandleSubscription ==
  /\ toServer # <<>> /\ Head(toServer).type \in {"subscribe", "unsubscribe"}
  /\ \E m \in {Head(toServer)} :
       /\ subscriptions' = IF m.type = "subscribe"
                           THEN subscriptions \cup {m.collection}
                           ELSE subscriptions \ {m.collection}
       /\ toClient' = Append(toClient,
                             Message(IF m.type = "subscribe" THEN "subscribed"
                                     ELSE "unsubscribed", NoMessageId, m.collection))
  /\ toServer' = Tail(toServer)
  /\ UNCHANGED <<collections, heap, indexes, nextId, isConnected, calls, disk, last,
                 CoreState, cache, cacheSize, response, wsOpen, messageId, pendingRequests>>

\* handleWebSocketMessage with handleWebSocketFind, lines 557-614: the
\* answer carries the id of the request
HandleWebSocketFind ==
  /\ toServer # <<>> /\ Head(toServer).type = "find"
  /\ \E m \in {Head(toServer)} :
       /\ findDocuments(m.collection, m.body)
       /\ toClient' = Append(toClient, Message("findResult", m.id, m.collection))
  /\ toServer' = Tail(toServer)
  /\ UNCHANGED <<wsOpen, subscriptions, messageId, pendingRequests>>

\* `message.id && ...`: undefined, null and 0 are falsy
Truthy(id) == id # NoMessageId /\ id # 0

\* ws.onmessage, lines 110-123: the request stored under message.id is
\* removed from pendingRequests and settled
OnMessage ==
  /\ toClient # <<>>
  /\ \E m \in {Head(toClient)} :
       pendingRequests' = IF Truthy(m.id) /\ m.id \in pendingRequests
                          THEN pendingRequests \ {m.id}
                          ELSE pendingRequests
  /\ toClient' = Tail(toClient)
  /\ UNCHANGED <<collections, heap, indexes, nextId, isConnected, calls, disk, last,
                 CoreState, cache, cacheSize, response, wsOpen, subscriptions,
                 messageId, toServer>>

\* ----------------------------------------------------- specifications
\* Spec: one caller that awaits every call, on the collection "users".
\* The indexes are created (and re-created) at any time.
Next ==
  \/ \E d \in InsertDocs : Insert("users", d)
  \/ \E x \in UpdateCalls : Update("users", x.query, x.update, x.upsert)
  \/ \E q \in Queries : Delete("users", q)
  \/ \E spec \in IndexSpecs : CreateIndex("users", spec)
  \/ CreateIndex("users", NameIndexSpec)
  \/ DropCollection("users")

Spec == Init /\ [][Next]_vars

\* SpecIdentity: the same caller on a collection without indexes, with
\* update specs that name _id.
IdUpdateCalls == [query : Queries, update : IdUpdates \cup Updates, upsert : {FALSE}]

NextIdentity ==
  \/ \E d \in InsertDocs : Insert("users", d)
  \/ \E x \in IdUpdateCalls : Update("users", x.query, x.update, x.upsert)
  \/ \E q \in Queries : Delete("users", q)

SpecIdentity == Init /\ [][NextIdentity]_vars

\* SpecPersist: the caller inserts, creates indexes and collections,
\* disconnects, and connects a new Store to the same storage root.
NextPersist ==
  \/ \E d \in InsertDocs : Insert("users", d)
  \/ \E spec \in IndexSpecs : CreateIndex("users", spec)
  \/ CreateCollection("logs")
  \/ Disconnect
  \/ Reconnect

SpecPersist == Init /\ [][NextPersist]_vars

\* SpecBatch: the caller inserts lists of documents, with and without a
\* unique index on email, and deletes.
NextBatch ==
  \/ \E docs \in BatchDocs : InsertMany("users", docs)
  \/ \E spec \in IndexSpecs : CreateIndex("users", spec)
  \/ \E q \in Queries : Delete("users", q)

SpecBatch == Init /\ [][NextBatch]_vars

\* SpecQuery: the caller inserts documents with scalar and array fields
\* and deletes by {name: v}.
NextQuery ==
  \/ \E d \in QueryDocs : Insert("users", d)
  \/ \E v \in ScalarNames : Delete("users", NameQuery(v))

SpecQuery == Init /\ [][NextQuery]_vars

\* every array the update would build is an array of ArrayElements
PushBounded(c, q, u) ==
  \A r \in Range(find(collection(collections, c)[c], heap, q)) :
    PushDefined(IF IsArray(heap[r][u.field]) THEN heap[r][u.field] ELSE EmptyArray,
                u.val)

\* await db.collection(c).update(q, {$push: {name: 'm'}})
UpdatePush(c, q) ==
  /\ PushBounded(c, q, PushUpdate)
  /\ Update(c, q, PushUpdate, FALSE)

\* SpecPush: the caller inserts documents, creates a non-unique index on
\* name, pushes onto name and deletes, awaiting each call.
NextPush ==
  \/ \E d \in PushDocs : Insert("users", d)
  \/ CreateIndex("users", NameIndexSpec)
  \/ \E q \in {NoQuery, NameQuery("n")} : UpdatePush("users", q)
  \/ \E q \in {NoQuery, NameQuery("n")} : Delete("users", q)

SpecPush == Init /\ [][NextPush]_vars

\* SpecQueue: a caller that issues inserts and deletes on two collections
\* without awaiting them, so that the write queue holds operations that
\* differ.
QueueColls == {"users", "logs"}

NextQueue ==
  \/ \E c \in QueueColls, d \in [_id : {NoId}, email : {Undef}, name : NameVals] :
       CallInsert(c, d)
  \/ \E c \in QueueColls : CallDelete(c, NoQuery)
  \/ \E k \in DOMAIN calls : DeleteApply(k)
  \/ \E k \in DOMAIN calls : Settle(k)
  \/ \E k \in loops : LoopResume(k)
  \/ \E s \in saves : SaveDone(s)

SpecQueue == Init /\ [][NextQueue]_vars

\* SpecLive: a caller that issues inserts on two collections without
\* awaiting them, and then stops.  Node.js runs a continuation as soon as
\* it is at the head of the microtask queue and delivers the completion of
\* an fs.writeFile, success or failure, once the microtask queue is empty,
\* so each of these steps is taken when it stays enabled.
NextLive ==
  \/ \E c \in QueueColls, d \in [_id : {NoId}, email : {Undef}, name : ScalarNames] :
       CallInsert(c, d)
  \/ \E k \in DOMAIN calls : Settle(k)
  \/ \E k \in loops : LoopResume(k)
  \/ \E s \in saves : SaveDone(s)
  \/ \E s \in saves : SaveFail(s)

SpecLive ==
  /\ Init /\ [][NextLive]_vars
  /\ WF_vars(\E k \in DOMAIN calls : Settle(k))
  /\ WF_vars(\E k \in loops : LoopResume(k))
  /\ WF_vars(\E s \in saves : SaveDone(s) \/ SaveFail(s))

\* SpecConc: a caller that issues calls without awaiting them.
ConcDocs == [_id : {NoId}, email : {Undef}, name : NameVals]

ConcUpdate == [kind |-> "$unset", field |-> "email", val |-> Undef, idv |-> NoId]

NextConc ==
  \/ \E d \in ConcDocs : CallInsert("users", d)
  \/ CallUpdate("users", NoQuery, ConcUpdate, FALSE)
  \/ CallDelete("users", NoQuery)
  \/ CallCreateCollection("users")
  \/ CallDisconnect
  \/ \E k \in DOMAIN calls : UpdateApply(k)
  \/ \E k \in DOMAIN calls : DeleteApply(k)
  \/ \E k \in DOMAIN calls : Settle(k)
  \/ \E k \in loops : LoopResume(k)
  \/ \E s \in saves : SaveDone(s)

SpecConc == Init /\ [][NextConc]_vars

\* SpecDrop: a caller that creates an index (awaited) and issues inserts
\* and dropCollection without awaiting them.
NextDrop ==
  \/ \E d \in ConcDocs : CallInsert("users", d)
  \/ CreateIndex("users", NameIndexSpec)
  \/ CallDropCollection("users")
  \/ \E k \in DOMAIN calls : DropResume(k)
  \/ \E k \in DOMAIN calls : Settle(k)
  \/ \E k \in loops : LoopResume(k)
  \/ \E s \in saves : SaveDone(s)
  \/ \E s \in saves : UnlinkDone(s)

SpecDrop == Init /\ [][NextDrop]_vars

\* SpecEval: the functions of a Collection that compute a result from their
\* arguments alone, applied to arguments drawn from small sets.
NextEval ==
  \/ \E doc \in EvalDocs, q \in CombinedQueries : EvalMatchesQuery(doc, q)
  \/ \E documents \in AgeDocs, t \in Thresholds : EvalAggregate(documents, t)
  \/ \E documents \in SignedDocs : EvalMinMax(documents)
  \/ \E results \in PageDocs, options \in PageOptions :
       EvalPaginate(results, options)
  \/ \E doc \in NestedDocs, u \in NestedUpdates : EvalApplyUpdate(doc, u)
  \/ \E document \in StampDocs, generated \in GenIds, now \in Clock :
       EvalInsert(document, generated, now)

SpecEval == Init /\ [][NextEval]_vars

\* SpecIdentityIndex: the caller inserts, rewrites _id through update and
\* creates a unique index on the collection.
NextIdentityIndex ==
  \/ \E d \in InsertDocs : Insert("users", d)
  \/ \E q \in Queries : \E u \in IdUpdates : Update("users", q, u, FALSE)
  \/ \E spec \in IndexSpecs : CreateIndex("users", spec)

SpecIdentityIndex == Init /\ [][NextIdentityIndex]_vars

\* SpecIndexNames: the caller inserts into two collections, creates indexes
\* on them under default and given names, and drops indexes by name.
NextIndexNames ==
  \/ \E c \in NameColls : \E d \in InsertDocs : Insert(c, d)
  \/ \E c \in NameColls : \E name \in GivenNames : CreateIndexNamed(c, NameSpec(c), name)
  \/ \E c \in NameColls : \E name \in DropNames : DropIndex(c, name)
  \/ \E name \in DropNames : DatabaseDropIndex(name)

SpecIndexNames == Init /\ [][NextIndexNames]_vars

\* SpecNoMatch: a caller that creates an index on name (awaited) and issues
\* inserts, and updates and deletes of the documents with email 'a',
\* without awaiting them; after the update has removed email no document
\* matches.
NextNoMatch ==
  \/ \E d \in InsertDocs : CallInsert("users", d)
  \/ CreateIndex("users", NameIndexSpec)
  \/ CallUpdate("users", EmailQuery("a"), ConcUpdate, FALSE)
  \/ CallDelete("users", EmailQuery("a"))
  \/ \E k \in DOMAIN calls : UpdateApply(k)
  \/ \E k \in DOMAIN calls : DeleteApply(k)
  \/ \E k \in DOMAIN calls : Settle(k)
  \/ \E k \in loops : LoopResume(k)
  \/ \E s \in saves : SaveDone(s)

SpecNoMatch == Init /\ [][NextNoMatch]_vars

\* SpecExplicitId: the caller inserts documents with and without an _id of
\* its own, creates unique indexes on email and deletes all documents,
\* awaiting each call.
ExplicitDocs == [_id : {NoId, CallerId}, email : EmailVals \cup {Undef}, name : NameVals]

NextExplicitId ==
  \/ \E d \in ExplicitDocs : Insert("users", d)
  \/ \E spec \in IndexSpecs : CreateIndex("users", spec)
  \/ Delete("users", NoQuery)

SpecExplicitId == Init /\ [][NextExplicitId]_vars

\* SpecServer: a DatabaseServer with a small cacheSize handles find,
\* insert, update, delete and dropCollection requests on one collection,
\* one after the other.  No index is created, so no request fails, and no
\* WebSocket client is connected.
InitServer == InitStore /\ \E size \in CacheSizes : InitFrontEnd(size, FALSE)

NextServer ==
  \/ \E body \in Bodies : FindDocuments("users", body)
  \/ \E d \in InsertDocs : InsertDocument("users", d)
  \/ UpdateDocuments("users", NoQuery, ConcUpdate)
  \/ \E q \in {NoQuery, EmailQuery("a")} : DeleteDocuments("users", q)
  \/ ServerDropCollection("users")

SpecServer == InitServer /\ [][NextServer]_vars

\* SpecClient: a DBClient with an open socket sends subscribe, unsubscribe
\* and find requests without awaiting them; the server handles the
\* messages in the order they arrive and the client handles the answers in
\* the order they arrive.  Node.js delivers a received message to the
\* 'message' handler of an open socket, on either side, so each of the
\* handling steps is taken when it stays enabled.
InitClient == InitStore /\ InitFrontEnd(DefaultCacheSize, TRUE)

NextClient ==
  \/ \E type \in {"subscribe", "unsubscribe"} : \E c \in QueueColls :
       WsRequest(type, c, [query |-> NoQuery])
  \/ \E c \in QueueColls : \E body \in Bodies : WsRequest("find", c, body)
  \/ HandleSubscription
  \/ HandleWebSocketFind
  \/ OnMessage

SpecClient ==
  /\ InitClient /\ [][NextClient]_vars
  /\ WF_vars(HandleSubscription)
  /\ WF_vars(HandleWebSocketFind)
  /\ WF_vars(OnMessage)

\* ------------------------------------------------------------ claims
\* the documents find({}) returns
Live(c) ==
  IF c \in DOMAIN collections
  THEN {heap[collections[c][i].ref] : i \in 1..Len(collections[c])}
  ELSE {}

\* the ids an index holds under any key
IndexedIds(ix) == UNION {ix.data[k] : k \in DOMAIN ix.data}

IndexesOf(c) == {i \in 1..Len(indexes) : indexes[i].collection = c}
SparseUnique(c) == {i \in IndexesOf(c) : indexes[i].sparse /\ indexes[i].unique}
UniqueOn(c, fields) ==
  \E i \in IndexesOf(c) : indexes[i].unique /\ indexes[i].fields = fields

\* the documents of "users" that update/delete(q) would find
Found(q) == find(collection(collections, "users")["users"], heap, q)

\* C1: when insert(doc) is rejected by a unique index, the document is not
\* in the collection's document set afterwards and its id is in no index
\* bound to the collection (the id of the latest insert is nextId - 1).
C1_RejectedInsertLeavesNoTrace ==
  (last.op = "insert" /\ last.err) =>
    /\ ~MapHas(collections["users"], nextId - 1)
    /\ \A i \in IndexesOf("users") : (nextId - 1) \notin IndexedIds(indexes[i])

\* C2: with a unique index on [email], an insert of a document with an
\* email fails exactly when a live document has that email: a second equal
\* email is rejected, and once no live document has it the email is free.
C2_UniqueEmail ==
  [][\A d \in InsertDocs :
       (UniqueOn("users", <<"email">>) /\ d.email # Undef /\ Insert("users", d))
         => (last'.err <=> \E doc \in Live("users") : doc.email = d.email)]_vars

\* C3: no composite key of a unique index maps to more than one document
\* id, whatever createIndex, insert, update and delete calls (accepted or
\* rejected) came before.
C3_UniqueKeyOneId ==
  \A i \in 1..Len(indexes) :
    indexes[i].unique =>
      \A k \in DOMAIN indexes[i].data : Cardinality(indexes[i].data[k]) <= 1

\* a unique index that holds a key, right after a rejected update
C3_Witness ==
  /\ last.op = "update" /\ last.err
  /\ \E i \in 1..Len(indexes) : indexes[i].unique /\ DOMAIN indexes[i].data # {}

\* C4: with a sparse unique index, documents that lack the indexed field
\* are inserted and updated without a duplicate-key error, however many
\* there are, and none of them is in the index.
C4_SparseUnique ==
  /\ [](\A i \in SparseUnique("users") :
          \A doc \in Live("users") :
            doc.email = Undef => doc._id \notin IndexedIds(indexes[i]))
  /\ [][\A d \in InsertDocs :
          (SparseUnique("users") # {} /\ d.email = Undef /\ Insert("users", d))
            => ~last'.err]_vars
  /\ [][\A x \in UpdateCalls :
          (/\ SparseUnique("users") # {}
           /\ x.update.field # "email" \/ x.update.kind = "$unset"
           /\ \A j \in 1..Len(Found(x.query)) : heap[Found(x.query)[j]].email = Undef
           /\ Update("users", x.query, x.update, x.upsert))
            => ~last'.err]_vars

\* an accepted insert of a document without email under a sparse unique
\* index, into a collection that already held such a document
C4_Witness ==
  /\ SparseUnique("users") # {}
  /\ last.op = "insert" /\ ~last.err
  /\ \E doc \in Live("users") : doc._id = nextId - 1 /\ doc.email = Undef
  /\ Cardinality({doc \in Live("users") : doc.email = Undef}) >= 2

\* C7: update(query, {$set: S}, {upsert: true}) with no matching document
\* inserts one document and returns upsertedCount = 1; find(query) then
\* returns exactly that document.
C7_Upsert ==
  [][\A x \in UpdateCalls :
       (x.upsert /\ Found(x.query) = <<>>
          /\ Update("users", x.query, x.update, x.upsert))
         => /\ last'.upsertedCount = 1
            /\ Len(find(collections'["users"], heap', x.query)) = 1]_vars

\* C8: every document of a collection is stored under exactly one key of
\* the document map and that key equals the document's _id, after any
\* insert, update and delete, also when the update spec names _id.
C8_Identity ==
  \A c \in DOMAIN collections :
    \A i \in 1..Len(collections[c]) :
      /\ heap[collections[c][i].ref]._id = collections[c][i].key
      /\ \A j \in 1..Len(collections[c]) :
           collections[c][j].ref = collections[c][i].ref => j = i

\* find({}) on collection c of a new Store connected to the storage root d
Reloaded(d, c) ==
  LET l == LoadAll(d.collections, DOMAIN d.collections, EmptyFn, <<>>)
  IN  IF c \in DOMAIN l.collections
      THEN [i \in 1..Len(l.collections[c]) |-> l.heap[l.collections[c][i].ref]]
      ELSE <<>>

\* C5: round trip.  Where inserts are the only mutations, every accepted
\* (awaited) insert adds exactly its document, at the end, to what a new
\* Store on the same storage root reads back with find({}); so N accepted
\* inserts read back as exactly those N documents in insertion order.
C5_RoundTrip ==
  [][\A d \in InsertDocs :
       (Insert("users", d) /\ ~last'.err)
         => Reloaded(disk', "users")
              = Append(Reloaded(disk, "users"), [d EXCEPT !._id = nextId])]_vars

\* what getIndexes(c) lists of each index
Listing(ixs, c) ==
  LET l == getIndexes(ixs, c)
  IN  [i \in 1..Len(l) |-> [name |-> l[i].name, fields |-> l[i].fields,
                            unique |-> l[i].unique, sparse |-> l[i].sparse]]

\* C6: the indexes of the Store that disconnected are listed, with their
\* fields, by getIndexes on the new Store connected to the same root.
C6_IndexesPersist ==
  [][Reconnect => Listing(indexes', "users") = Listing(indexes, "users")]_vars

\* C9: at most one processWriteQueue loop runs and at most one queued
\* write operation is executing, in every interleaving of calls issued
\* without awaiting; the next operation starts only after the previous
\* one's write has completed.
C9_SingleWriter ==
  /\ Cardinality(loops) <= 1
  /\ Cardinality({s \in saves : s.by.kind = "loop"}) <= 1

\* a queued operation executing while another waits in the queue and a
\* disconnect call has run processWriteQueue
C9_Witness ==
  /\ isWriting /\ writeQueue # <<>>
  /\ \E s \in saves : s.by.kind = "loop"
  /\ \E k \in DOMAIN calls : calls[k].op = "disconnect"

\* C10: no two executions of saveCollection overlap in time: at most one
\* collection snapshot write is in flight, whatever insert, update, delete
\* and createCollection calls were issued without awaiting.
C10_NoOverlappingSaves ==
  Cardinality({s \in saves : s.kind = "collection"}) <= 1

\* C11: when disconnect() has completed and the Store is marked
\* disconnected, the write queue is empty and no queued write operation is
\* executing, also when writes of earlier calls were pending or in flight
\* at the time disconnect was called.
C11_DisconnectDrains ==
  ~isConnected =>
    /\ writeQueue = <<>>
    /\ ~isWriting
    /\ \A s \in saves : s.by.kind # "loop"

\* the documents of collection c in Map order
DocsOf(colls, hp, c) == [i \in 1..Len(colls[c]) |-> hp[colls[c][i].ref]]

\* The documents a pending update or delete call acts on when every call
\* runs to completion before the next starts: those that are in the
\* collection and match the query when its turn comes.  The pending calls
\* take effect in call order (FIFO microtasks), so these are the documents
\* found at call time that earlier calls have left in place.
SeqFound(f) ==
  SelectSeq(f.found,
            LAMBDA r : /\ \E i \in 1..Len(collections[f.coll]) :
                            collections[f.coll][i].ref = r
                       /\ matchesQuery(heap[r], f.query))

\* C12: mutations of one collection take effect in call order.  When a
\* pending update or delete takes effect, the document set it leaves and
\* the counts it returns are those of the same call run in its turn on the
\* documents then in the collection.
C12_CallOrder ==
  [][\A k \in DOMAIN calls :
       /\ UpdateApply(k) =>
            \A f \in {calls[k]} :
            \A start \in {UpdateStart(collections, heap, indexes, nextId)} :
            \A seq \in {UpdateLoop(SeqFound(f), 1, f.coll, f.query, f.update,
                                   f.upsert, start)} :
            \A act \in {UpdateLoop(f.found, 1, f.coll, f.query, f.update,
                                   f.upsert, start)} :
              /\ DocsOf(collections', heap', f.coll)
                   = DocsOf(seq.collections, seq.heap, f.coll)
              /\ Len(f.found) = Len(SeqFound(f))
              /\ act.updatedCount = seq.updatedCount
       /\ DeleteApply(k) =>
            \A f \in {calls[k]} :
            \A start \in {[collections |-> collections, indexes |-> indexes]} :
            \A seq \in {DeleteLoop(SeqFound(f), 1, f.coll, heap, start)} :
              /\ DocsOf(collections', heap', f.coll)
                   = DocsOf(seq.collections, heap, f.coll)
              /\ Len(f.found) = Len(SeqFound(f))]_vars

\* C13: the in-memory effect of an insert, update or delete is visible to
\* every find that is called after the mutation call was issued: once the
\* call is issued, find({}) returns the inserted document, no document
\* the delete matched, and the documents the update matched as updated.
C13_VisibleAtOnce ==
  /\ [](\A k \in DOMAIN calls :
          \A i \in 1..Len(calls[k].found) :
            /\ calls[k].op = "delete" =>
                 calls[k].found[i] \notin Range(Found(NoQuery))
            /\ calls[k].op = "update" =>
                 applyUpdateOperations(heap[calls[k].found[i]], calls[k].update)
                   = heap[calls[k].found[i]])
  /\ [][\A d \in ConcDocs :
          CallInsert("users", d) =>
            \E i \in 1..Len(collections'["users"]) :
              heap'[collections'["users"][i].ref] = [d EXCEPT !._id = nextId]]_vars

\* C14: once dropCollection(name) has completed, and until the caller
\* refers to the collection again, the collection is not listed, no index
\* bound to it is registered, and its snapshot file does not exist: a write
\* that was pending or in flight when the drop was requested does not
\* create it again.
C14_DropRemoves ==
  ("users" \notin DOMAIN collections
     /\ \A k \in DOMAIN calls : calls[k].op # "dropCollection")
    => /\ getIndexes(indexes, "users") = <<>>
       /\ "users" \notin DOMAIN disk.collections

\* C15: every successful mutation emits exactly one change event, named as
\* in the change-event stream: insert documentInserted, an update that
\* modified a document documentsUpdated, a delete that removed a document
\* documentsDeleted, dropCollection of an existing collection
\* collectionDropped; a mutation that fails emits none.
C15_ChangeEvents ==
  /\ [](last.err => last.events = <<>>)
  /\ []((last.op = "insert" /\ ~last.err) => last.events = <<"documentInserted">>)
  /\ [][\A x \in UpdateCalls :
          (/\ Update("users", x.query, x.update, x.upsert)
           /\ ~last'.err
           /\ UpdateLoop(Found(x.query), 1, "users", x.query, x.update, x.upsert,
                         UpdateStart(collection(collections, "users"), heap,
                                     indexes, nextId)).updatedCount > 0)
            => last'.events = <<"documentsUpdated">>]_vars
  /\ [][\A q \in Queries :
          (Delete("users", q) /\ Found(q) # <<>>)
            => last'.events = <<"documentsDeleted">>]_vars
  /\ [][(DropCollection("users") /\ "users" \in DOMAIN collections)
          => last'.events = <<"collectionDropped">>]_vars

\* the update call x on "users", run on the first n documents it finds
UpdatePrefix(x, n) ==
  UpdateLoop(SubSeq(Found(x.query), 1, n), 1, "users", x.query, x.update, x.upsert,
             UpdateStart(collection(collections, "users"), heap, indexes, nextId))

\* the update call x is rejected at the i-th document it finds
RejectedAt(x, i) ==
  /\ i \in 1..Len(Found(x.query))
  /\ ~UpdatePrefix(x, i - 1).err
  /\ UpdatePrefix(x, i).err

\* index ix holds the document doc under the key of its field values
HoldsUnderKey(ix, doc) ==
  /\ getIndexKey(ix, doc) \in DOMAIN ix.data
  /\ doc._id \in ix.data[getIndexKey(ix, doc)]

\* C16: when update is rejected by a unique index for a document, that
\* document's stored field values are the same as before the call, and
\* every index that held it still holds it under its old key.
C16_RejectedUpdateIntact ==
  [][\A x \in UpdateCalls :
       Update("users", x.query, x.update, x.upsert) =>
         \A i \in 1..Len(Found(x.query)) :
           RejectedAt(x, i) =>
             \A old \in {heap[Found(x.query)[i]]} :
               /\ \E j \in 1..Len(collections'["users"]) :
                    heap'[collections'["users"][j].ref] = old
               /\ \A n \in IndexesOf("users") :
                    HoldsUnderKey(indexes[n], old) => HoldsUnderKey(indexes'[n], old)]_vars

\* C17: when update matches several documents and a unique index rejects
\* the change for one of them, every other matched document (whose own
\* change no index rejects) is stored updated, and the updated state is
\* persisted: the snapshot file holds the documents as they are in memory.
C17_BatchUpdateContinues ==
  [][\A x \in UpdateCalls :
       Update("users", x.query, x.update, x.upsert) =>
         \A found \in {Found(x.query)} :
         \A i \in 1..Len(found) :
           (RejectedAt(x, i) /\ Len(found) >= 2) =>
             /\ \A j \in (1..Len(found)) \ {i} :
                  \A new \in {applyUpdateOperations(heap[found[j]], x.update)} :
                    (j < i \/ ~updateIndexes(UpdatePrefix(x, i).indexes, "users", new,
                                             "update", heap[found[j]]).err)
                      => \E n \in 1..Len(collections'["users"]) :
                           heap'[collections'["users"][n].ref] = new
             /\ "users" \in DOMAIN disk'.collections
             /\ disk'.collections["users"] = Snapshot(collections'["users"], heap')]_vars

\* insertMany(docs) on "users", run on the first n documents of the list
InsertManyPrefix(docs, n) ==
  InsertManyLoop(SubSeq(docs, 1, n), 1, "users",
                 InsertManyStart(collections, heap, indexes, nextId, disk))

\* the j-th document of the list as insert stores it: the ids are
\* generated in list order
Stored(docs, j) == [docs[j] EXCEPT !._id = nextId + j - 1]

\* C18: insertMany inserts the documents one by one in list order and is
\* not atomic: when the insert of the k-th document fails, the first k-1
\* documents are in the collection and in the snapshot file, and no
\* document after the k-th is inserted (no id is generated for it); when
\* none fails, all are in the collection.
C18_InsertManyPartial ==
  [][\A docs \in BatchDocs :
       InsertMany("users", docs) =>
         \A k \in 1..(Len(docs) + 1) :
           (/\ ~InsertManyPrefix(docs, k - 1).err
            /\ k <= Len(docs) => InsertManyPrefix(docs, k).err) =>
             /\ \A j \in 1..(k - 1) :
                  /\ \E n \in 1..Len(collections'["users"]) :
                       heap'[collections'["users"][n].ref] = Stored(docs, j)
                  /\ "users" \in DOMAIN disk'.collections
                  /\ JSONOfDoc(Stored(docs, j)) \in Range(disk'.collections["users"])
             /\ \A n \in 1..Len(collections'["users"]) :
                  collections'["users"][n].key <= nextId + k - 1
             /\ nextId' = IF k <= Len(docs) THEN nextId + k ELSE nextId + Len(docs)
             /\ last'.err = (k <= Len(docs))]_vars

\* an insertMany that failed after it had inserted a document
C18_Witness ==
  last.op = "insertMany" /\ last.err /\ Len(last.events) >= 1

\* C19: delete(query) removes exactly the documents that match the query:
\* afterwards find(query) is empty, the documents that did not match are
\* the collection, unchanged and in their order, deletedCount (the number
\* of documents found, line 157) is the number of documents removed, and
\* no index bound to the collection holds the id of a removed document.
C19_DeleteExactly ==
  [][\A q \in Queries :
       (last'.op = "delete" /\ Delete("users", q)) =>
         \A before \in {collection(collections, "users")["users"]} :
         \A found \in {Found(q)} :
           /\ find(collections'["users"], heap', q) = <<>>
           /\ DocsOf(collections', heap', "users")
                = SelectSeq([i \in 1..Len(before) |-> heap[before[i].ref]],
                            LAMBDA doc : ~matchesQuery(doc, q))
           /\ Len(found) = Len(before) - Len(collections'["users"])
           /\ \A n \in 1..Len(indexes') :
                indexes'[n].collection = "users" =>
                  \A i \in 1..Len(found) :
                    heap[found[i]]._id \notin IndexedIds(indexes'[n])]_vars

\* C20: a query {field: v} with a scalar v matches a document when the
\* document's field equals v or is an array that contains v: find({name: v})
\* returns exactly those documents.
C20_ArrayMembership ==
  \A v \in ScalarNames :
    Range(Found(NameQuery(v)))
      = {r \in Range(MapValues(collection(collections, "users")["users"])) :
           \/ heap[r].name = v
           \/ /\ IsArray(heap[r].name)
              /\ v \in Range(ArrayElements[heap[r].name])}

\* C21: a query with field predicates and any combination of $and, $or and
\* $nor matches a document exactly when all field predicates hold, every
\* $and sub-query matches, at least one $or sub-query matches and no $nor
\* sub-query matches, each clause applying only when it is present; the
\* empty query matches every document.
C21_Combinators ==
  last.op = "matchesQuery" =>
    \A doc \in {last.in[1]} : \A q \in {last.in[2]} :
      last.out <=>
        (/\ \A i \in 1..Len(q.fields) : matchesQuery(doc, q.fields[i])
         /\ q.and.present =>
              \A i \in 1..Len(q.and.subs) : matchesQuery(doc, q.and.subs[i])
         /\ q.or.present =>
              \E i \in 1..Len(q.or.subs) : matchesQuery(doc, q.or.subs[i])
         /\ q.nor.present =>
              ~ \E i \in 1..Len(q.nor.subs) : matchesQuery(doc, q.nor.subs[i]))

RECURSIVE SumOfAges(_)
SumOfAges(documents) ==
  IF documents = <<>> THEN 0 ELSE Head(documents).age + SumOfAges(Tail(documents))

\* C22: aggregation with [{$match: q}, {$group: {_id: null, avg: {$avg:
\* field}, count: {$sum: 1}}}] over a collection with documents matching q
\* returns exactly one group, whose count is the number of matching
\* documents and whose avg is the arithmetic mean of the field over them.
C22_AvgCount ==
  last.op = "aggregate" =>
    \A matching \in {SelectSeq(last.in[1], LAMBDA doc : doc.age >= last.in[2])} :
      matching # <<>> =>
        /\ Len(last.out) = 1
        /\ "count" \in DOMAIN last.out[1]
        /\ last.out[1].count.sum = Len(matching) * last.out[1].count.count
        /\ "avg" \in DOMAIN last.out[1]
        /\ last.out[1].avg.t = "number"
        /\ last.out[1].avg.sum * Len(matching)
             = SumOfAges(matching) * last.out[1].avg.count

\* the elements at positions from + 1 to from + n of a sequence, fewer if
\* the sequence ends earlier
Positions(seq, from, n) ==
  [i \in 1..(IF from >= Len(seq) THEN 0
             ELSE IF from + n > Len(seq) THEN Len(seq) - from ELSE n)
     |-> seq[from + i]]

\* C23 as stated: find(query, {skip: s, limit: l}) returns the elements at
\* positions s+1 to s+l of the matched and sorted sequence (fewer if the
\* sequence ends earlier), whatever l is; an absent limit yields all
\* remaining elements.
C23_SkipThenAnyLimit ==
  last.op = "paginate" =>
    \A results \in {last.in[1]} : \A options \in {last.in[2]} :
      \A s \in {IF options.skip.present THEN options.skip.n ELSE 0} :
        last.out = Positions(results, s,
                             IF options.limit.present THEN options.limit.n
                             ELSE Len(results))

\* C23: find(query, {skip: s, limit: l}) applies skip first and then limit:
\* for l >= 1 it returns the elements at positions s+1 to s+l of the matched
\* and sorted sequence (fewer if the sequence ends earlier); a skip at or
\* beyond the sequence length yields an empty result, and an absent limit,
\* like a limit of 0, yields all remaining elements.
C23_SkipThenLimit ==
  last.op = "paginate" =>
    \A results \in {last.in[1]} : \A options \in {last.in[2]} :
      \A s \in {IF options.skip.present THEN options.skip.n ELSE 0} :
        /\ last.out = Positions(results, s,
                                IF options.limit.present /\ options.limit.n >= 1
                                THEN options.limit.n ELSE Len(results))
        /\ s >= Len(results) => last.out = <<>>

\* a find with skip and limit that returned a proper middle part
C23_Witness ==
  /\ last.op = "paginate"
  /\ last.in[2].skip.present /\ last.in[2].skip.n >= 1
  /\ last.in[2].limit.present /\ last.in[2].limit.n >= 1
  /\ last.out # <<>>
  /\ last.in[2].skip.n + Len(last.out) < Len(last.in[1])

\* C24: update idempotence: applying update(q, {$set: S}) twice in a row
\* leaves every document with the same field values and every bound index
\* in the same state as applying it once.
C24_SetIdempotent ==
  [][\A x \in {y \in UpdateCalls : y.update.kind = "$set" /\ ~y.upsert} :
       (last'.op = "update" /\ Update("users", x.query, x.update, FALSE)) =>
         \A again \in {UpdateLoop(find(collections'["users"], heap', x.query), 1,
                                  "users", x.query, x.update, FALSE,
                                  UpdateStart(collections', heap', indexes', nextId'))} :
           /\ DocsOf(again.collections, again.heap, "users")
                = DocsOf(collections', heap', "users")
           /\ again.indexes = indexes']_vars

\* C25: update with $set on a dotted path ({$set: {'address.city': v}})
\* sets the nested field address.city of the document to v and leaves the
\* sibling field address.country of the nested mapping unchanged.
C25_SetDottedPath ==
  (last.op = "applyUpdateOperations" /\ last.in[2].field = "address.city") =>
    /\ last.out.address.city = last.in[2].val
    /\ last.out.address.country = last.in[1].address.country

C27_IndexConsistent ==
  \A n \in IndexesOf("users") :
    \A ix \in {indexes[n]} :
      /\ \A k \in DOMAIN ix.data : \A id \in ix.data[k] :
           \E doc \in Live("users") : doc._id = id /\ getIndexKey(ix, doc) = k
      /\ \A doc \in Live("users") :
           getIndexKey(ix, doc) # KeyNull => HoldsUnderKey(ix, doc)
      /\ \A k1 \in DOMAIN ix.data : \A k2 \in DOMAIN ix.data :
           k1 # k2 => ix.data[k1] \cap ix.data[k2] = {}

\* the write loop has started a save of collection c in this step
LoopStarted(c) ==
  \E s \in saves' \ saves : s.by.kind = "loop" /\ s.name = <<c>>

\* C28: queued write operations execute in exactly the order in which they
\* were enqueued, for every interleaving of concurrently requested
\* mutations: a step leaves the queue as it is, or appends an operation at
\* its end, or removes the operation at its head, and the operation removed
\* is the one the write loop starts.
C28_Fifo ==
  [][\/ writeQueue' = writeQueue
     \/ \E c \in QueueColls : writeQueue' = Append(writeQueue, [coll |-> c])
     \/ /\ writeQueue # <<>>
        /\ writeQueue' = Tail(writeQueue)
        /\ LoopStarted(Head(writeQueue).coll)]_vars

\* the write loop is running and two operations on different collections
\* wait in the queue
C28_Witness ==
  /\ isWriting /\ loops # {}
  /\ Len(writeQueue) = 2
  /\ writeQueue[1].coll # writeQueue[2].coll

\* the snapshot of collection c on disk (no file: no documents)
DiskDocs(c) ==
  IF c \in DOMAIN disk.collections THEN disk.collections[c] ELSE <<>>

\* C29: whenever the write queue is empty and no write is executing after a
\* sequence of insert, update and delete calls, successful or rejected, the
\* on-disk snapshot of the collection equals its current in-memory document
\* set.
C29_DiskEqualsMemory ==
  (/\ Idle /\ writeQueue = <<>> /\ ~isWriting
   /\ last.op \in {"insert", "update", "delete"}
   /\ "users" \in DOMAIN collections) =>
    DiskDocs("users") = Snapshot(collections["users"], heap)

\* C30: every write operation enqueued with queueWrite is eventually
\* executed exactly once, also when an earlier operation fails and when it
\* is enqueued while the queue is being processed: a waiting operation has a running loop, it leaves the queue
\* only when the loop starts it, one operation per step, and every waiting
\* operation eventually leaves; once the queue is empty the busy flag
\* isWriting is false again, and stays false when the caller has stopped.
C30_EventuallyOnce ==
  /\ [](writeQueue # <<>> => (isWriting /\ loops # {}))
  /\ [][Len(writeQueue') < Len(writeQueue) =>
          /\ writeQueue' = Tail(writeQueue)
          /\ LoopStarted(Head(writeQueue).coll)]_vars
  /\ (writeQueue # <<>>) ~> (writeQueue = <<>>)
  /\ (writeQueue = <<>> /\ isWriting) ~> ~isWriting
  /\ <>[](writeQueue = <<>> /\ ~isWriting /\ saves = {})

\* an operation waits in the queue while the loop executes another
C30_Witness ==
  /\ writeQueue # <<>> /\ isWriting
  /\ \E s \in saves : s.by.kind = "loop"

\* C31: in a $group stage, $min (resp. $max) of a field equals the smallest
\* (resp. largest) value of that field among the documents of the group,
\* for every sequence of numeric values including 0 and negative numbers.
C31_MinMax ==
  last.op = "minmax" =>
    \A values \in {{last.in[i].age : i \in 1..Len(last.in)}} :
      /\ Len(last.out) = 1
      /\ last.out[1].min = Quotient(CHOOSE v \in values : \A w \in values : v <= w, 1)
      /\ last.out[1].max = Quotient(CHOOSE v \in values : \A w \in values : v >= w, 1)

\* C32: createIndex is all-or-nothing: it either succeeds, registering an
\* index that holds every current document of the collection (except those
\* excluded by sparse) under its composite key and is listed by getIndexes,
\* or, when unique = true and two current documents share a key, it fails
\* and leaves the set of registered indexes unchanged.
C32_CreateIndexAllOrNothing ==
  [][\A spec \in IndexSpecs :
       (last'.op = "createIndex" /\ CreateIndex("users", spec)) =>
         \A docs \in {Live("users")} :
         \A new \in {NewIndex(IndexName("users", spec.fields), "users", spec.fields,
                              spec.unique, spec.sparse)} :
           IF last'.err
           THEN /\ indexes' = indexes
                /\ spec.unique
                /\ \E d1 \in docs : \E d2 \in docs :
                     /\ d1 # d2
                     /\ getIndexKey(new, d1) # KeyNull
                     /\ getIndexKey(new, d1) = getIndexKey(new, d2)
           ELSE \E n \in 1..Len(indexes') :
                  /\ indexes'[n].name = new.name
                  /\ indexes'[n].fields = spec.fields
                  /\ indexes'[n] \in Range(getIndexes(indexes', "users"))
                  /\ \A doc \in docs :
                       IF getIndexKey(new, doc) = KeyNull
                       THEN doc._id \notin IndexedIds(indexes'[n])
                       ELSE HoldsUnderKey(indexes'[n], doc)
                  /\ IndexedIds(indexes'[n]) \subseteq {doc._id : doc \in docs}
                  /\ \A m \in 1..Len(indexes') :
                       indexes'[m].name = new.name => m = n]_vars

\* C33: createIndex and dropIndex issued on one collection never remove,
\* replace or change an index bound to a different collection, whatever the
\* collection names, the field lists and the index names (default or given
\* in options.name): every index bound to another collection is registered
\* after the call exactly as before it.
C33_OtherCollectionsIndexesKept ==
  [][\A c \in NameColls :
       (/\ last'.op \in {"createIndex", "dropIndex"}
        /\ \/ \E name \in GivenNames : CreateIndexNamed(c, NameSpec(c), name)
           \/ \E name \in DropNames : DropIndex(c, name)) =>
         \A n \in 1..Len(indexes) :
           indexes[n].collection # c =>
             \E m \in 1..Len(indexes') : indexes'[m] = indexes[n]]_vars

\* C34: an update without upsert and a delete whose query matches no
\* document leave the document set, every index and the write queue
\* unchanged, emit no event, and return zero counts: the call itself
\* changes none of them, and when it goes on after its find with nothing
\* found it settles at once with zero counts and no event, and nothing is
\* queued, saved or written.
C34_NoMatchNoEffect ==
  [][(\A q \in {EmailQuery("a")} :
        (/\ find(collection(collections, "users")["users"], heap, q) = <<>>
         /\ \/ CallUpdate("users", q, ConcUpdate, FALSE)
            \/ CallDelete("users", q)) =>
          /\ Live("users")' = Live("users")
          /\ indexes' = indexes
          /\ writeQueue' = writeQueue /\ saves' = saves /\ disk' = disk
          /\ last' = last)
     /\
     (\A k \in DOMAIN calls :
        (/\ calls[k].pc = "apply" /\ calls[k].found = <<>> /\ ~calls[k].upsert
         /\ (UpdateApply(k) \/ DeleteApply(k))) =>
          /\ Live("users")' = Live("users")
          /\ indexes' = indexes
          /\ writeQueue' = writeQueue /\ isWriting' = isWriting /\ loops' = loops
          /\ saves' = saves /\ disk' = disk
          /\ k \notin DOMAIN calls'
          /\ last'.op = calls[k].op /\ ~last'.err
          /\ last'.events = <<>>
          /\ last'.matchedCount = 0 /\ last'.modifiedCount = 0
          /\ last'.upsertedCount = 0 /\ last'.deletedCount = 0)]_vars

\* an update found nothing in a collection that has documents and an index,
\* and has settled
C34_Witness ==
  /\ last.op = "update" /\ ~last.err /\ last.matchedCount = 0
  /\ Live("users") # {}
  /\ \E i \in IndexesOf("users") : IndexedIds(indexes[i]) # {}

\* the _ids of the documents find({}) returns
LiveIds(c) == {d._id : d \in Live(c)}

\* C35: a document removed by delete never reappears in the collection's
\* document set unless it is inserted again, for every interleaving of
\* delete with update calls issued concurrently on the same collection:
\* the only step after which the document set holds an _id it did not
\* hold before is the issue of an insert.
C35_DeletedStaysDeleted ==
  [][LiveIds("users")' \subseteq LiveIds("users")
       \/ \E d \in InsertDocs : CallInsert("users", d)]_vars

\* this.documents.size
MapSize(c) == IF c \in DOMAIN collections THEN Len(collections[c]) ELSE 0

\* C36: a successful insert adds exactly one document: the document count
\* of the collection grows by one and every previously stored document and
\* its index entries are unchanged, also when the inserted document carries
\* an explicit _id equal to that of a stored document.
C36_InsertAddsOne ==
  [][\A d \in ExplicitDocs :
       (last'.op = "insert" /\ ~last'.err /\ Insert("users", d)) =>
         /\ MapSize("users")' = MapSize("users") + 1
         /\ Live("users") \subseteq Live("users")'
         /\ \A i \in IndexesOf("users") :
              \A key \in DOMAIN indexes[i].data :
                /\ key \in DOMAIN indexes'[i].data
                /\ indexes[i].data[key] \subseteq indexes'[i].data[key]]_vars

\* C37: after any sequence of insert, update and delete calls on a
\* collection that has a unique index, rejected calls included, no two live
\* documents of the collection have the same non-absent composite key for
\* that index.
C37_LiveKeysDistinct ==
  \A i \in IndexesOf("users") :
    indexes[i].unique =>
      \A d1 \in Live("users") : \A d2 \in Live("users") :
        (d1 # d2 /\ getIndexKey(indexes[i], d1) # KeyNull)
          => getIndexKey(indexes[i], d1) # getIndexKey(indexes[i], d2)

\* C38: server query cache coherence: after any sequence of insert, update,
\* delete and dropCollection requests handled by the server, a find
\* response served from the cache equals the response an uncached find on
\* the current collection state would return.
C38_CacheCoherent ==
  [][\A body \in Bodies :
       (CacheHas(cache, CacheKey("users", body)) /\ FindDocuments("users", body)) =>
         response' = FindResponse(collections, heap, "users", body)]_vars

\* C39: the server's query cache is bounded: for every configured
\* cacheSize >= 1 the cache holds at most cacheSize entries after each find
\* request has completed.
C39_CacheBounded == Len(cache) <= cacheSize

\* the server has answered request i: the client has sent it and the server
\* has handled it
Answered(i) ==
  /\ i < messageId
  /\ \A n \in 1..Len(toServer) : toServer[n].id # i

\* C40: every promise returned by the client's wsRequest is eventually
\* settled once the server has answered that request, the first request
\* sent on a connection included, and it is removed from pendingRequests
\* when it is settled.
C40_AnsweredSettles ==
  \A i \in 0..(MaxRequests - 1) : Answered(i) ~> (i \notin pendingRequests)

====
